------------------------------- MODULE PartsProofs -------------------------------
(* What parts that MCParts puts side by side keep, for every value of their constants:   *)
(* the event socket, the collections' profiles, the settings documents, what is known of *)
(* the companion plugin, the deletion of an account's data, the plugin's cache and its   *)
(* ratings, the opening of the library's file, what pages hear of the player and what    *)
(* it leaves in the cache, and the ratings on cards.                                     *)
EXTENDS EventSocket, Collections, JsonDocument, CompanionProbe, AccountData,
        ProviderCache, LibraryFile, Ratings, PlaybackEvents, CardRatings,
        FiniteSetTheorems, SequenceTheorems, TLAPS

-----------------------------------------------------------------------------------
(* Event socket.  *)
(* What the user sees is catching up with the server, for any number of sign-ins,      *)
(* changes and lost connections.  The two views lean on different things.              *)
(*                                                                                   *)
(* A page (PageInv): once it was opened after the account's first connection, the      *)
(* thread either listens for that account or remembers, in lost_generation, that it    *)
(* lost the account's connection, so that reconnecting tells the page to fetch.        *)
(*                                                                                   *)
(* The cache: the last event on the wire that names the cached item is of    *)
(* its present state (WireInv), an answer not yet committed is the present state or an  *)
(* event is behind it (FetchedInv), and a cycle's page is never ahead of the server     *)
(* (CycleInv); so whatever is committed last is the state of the server.               *)

Events == [event : {"userData", "library"}, of : Kinds, state : Changes]

ItemInv == \A k \in Kinds : item[k] <= changes

(* Where the connection is, and whose the last lost one was. *)
LinkInv ==
  /\ socketAt = "wait" <=> connection = 0
  /\ connection <= generation /\ lostGeneration <= generation
  /\ socketAt # "wait" => lostGeneration <= connection
  /\ fetched # << >> => socketAt = "listen"
  /\ socketAt = "wait" => wire = << >>

WireInv ==
  \A i \in DOMAIN wire :
    \/ wire[i].of # "cached" \/ wire[i].state = item["cached"]
    \/ \E j \in DOMAIN wire : j > i /\ wire[j].of = "cached"

FetchedInv == fetched # << >> => fetched[1] = item["cached"] \/ OnTheWire("cached")
CycleInv == cycleRead # << >> => cycleRead[1] <= item["cached"] /\ cycleRead[2] <= generation

PageInv ==
  ~pageEarly =>
    /\ IF socketAt = "wait" THEN lostGeneration = generation ELSE connection = generation
    /\ \/ page = item["live"] \/ refetching \/ socketAt = "wait" \/ OnTheWire("live")
       \/ socketAt = "connected" /\ lostGeneration = connection

SocketInv ==
  ItemInv /\ LinkInv /\ WireInv /\ FetchedInv /\ CycleInv /\ CacheIsCatchingUp /\ PageInv

-----------------------------------------------------------------------------------
(* An event that is read leaves the others on the wire, in their order. *)
LEMMA WireAfterTail ==
  ASSUME wire \in Seq(Events), wire # << >>, wire' = Tail(wire)
  PROVE  /\ wire' \in Seq(Events) /\ Head(wire) \in Events /\ Head(wire) = wire[1]
         /\ \A i \in DOMAIN wire' : i + 1 \in DOMAIN wire /\ wire'[i] = wire[i + 1]
         /\ \A i \in DOMAIN wire : i = 1 \/ (i - 1 \in DOMAIN wire' /\ wire'[i - 1] = wire[i])
  OBVIOUS

(* So what is on its way of an item is still, or was the event that was read. *)
LEMMA OnTheWireAfterTail ==
  ASSUME wire \in Seq(Events), wire # << >>, wire' = Tail(wire), NEW kind \in Kinds,
         OnTheWire(kind), Head(wire).of # kind
  PROVE  OnTheWire(kind)'
<1>1. PICK i \in DOMAIN wire : wire[i].of = kind
  BY DEF OnTheWire
<1>2. i # 1
  BY <1>1
<1>3. i - 1 \in DOMAIN wire' /\ wire'[i - 1] = wire[i]
  BY <1>1, <1>2, WireAfterTail
<1> QED
  BY <1>1, <1>3 DEF OnTheWire

(* A new event is on its way, and those before it still are. *)
LEMMA WireAfterAppend ==
  ASSUME wire \in Seq(Events), NEW e \in Events, wire' = Append(wire, e)
  PROVE  /\ wire' \in Seq(Events) /\ OnTheWire(e.of)'
         /\ Len(wire) + 1 \in DOMAIN wire' /\ wire'[Len(wire) + 1] = e
         /\ \A i \in DOMAIN wire : i \in DOMAIN wire' /\ i < Len(wire) + 1 /\ wire'[i] = wire[i]
         /\ \A i \in DOMAIN wire' : i \in DOMAIN wire \/ i = Len(wire) + 1
         /\ \A kind \in Kinds : OnTheWire(kind) => OnTheWire(kind)'
<1>1. /\ wire' \in Seq(Events)
      /\ Len(wire) + 1 \in DOMAIN wire' /\ wire'[Len(wire) + 1] = e
      /\ \A i \in DOMAIN wire : i \in DOMAIN wire' /\ i < Len(wire) + 1 /\ wire'[i] = wire[i]
      /\ \A i \in DOMAIN wire' : i \in DOMAIN wire \/ i = Len(wire) + 1
  OBVIOUS
<1> QED
  BY <1>1 DEF OnTheWire

(* What a change of the server does to the item and to the wire. *)
LEMMA WhatChanges ==
  ASSUME SocketTypeOK, ItemInv, NEW k \in Kinds, NEW event \in {"userData", "library"},
         ItemChanges(k, event)
  PROVE  /\ item \in [Kinds -> Nat] /\ item' = [item EXCEPT ![k] = item[k] + 1]
         /\ item' \in [Kinds -> Changes]
         /\ changes' = changes + 1 /\ changes' \in Changes
         /\ wire \in Seq(Events)
         /\ socketAt = "wait" => wire' = wire
         /\ socketAt # "wait" =>
              \E e \in Events : wire' = Append(wire, e) /\ e.of = k /\ e.state = item'[k]
<1>1. /\ item \in [Kinds -> Nat] /\ item' = [item EXCEPT ![k] = item[k] + 1]
      /\ changes' = changes + 1 /\ changes' \in Changes /\ wire \in Seq(Events)
  BY EventSocketAssumption DEF SocketTypeOK, ItemChanges, Changes, Events
<1>2. item[k] + 1 \in Changes
  <2>1. item[k] \in Nat /\ changes \in Nat /\ item[k] <= changes /\ changes < MaxItemChanges
    BY <1>1, EventSocketAssumption DEF ItemInv, SocketTypeOK, ItemChanges, Changes
  <2> QED
    BY <2>1, EventSocketAssumption DEF Changes
<1>3. item' \in [Kinds -> Changes] /\ item'[k] \in Changes
  BY <1>1, <1>2 DEF SocketTypeOK
<1>4. [event |-> event, of |-> k, state |-> item'[k]] \in Events
  BY <1>3 DEF Events
<1> QED
  BY <1>1, <1>3, <1>4 DEF ItemChanges

(* Reading an event leaves the last one of the cached item the present state. *)
LEMMA ReadLeavesLatest ==
  ASSUME wire \in Seq(Events), wire # << >>, wire' = Tail(wire), item' = item, WireInv
  PROVE  WireInv'
<1>1. ASSUME NEW i \in DOMAIN wire'
      PROVE  \/ wire'[i].of # "cached" \/ wire'[i].state = item["cached"]
             \/ \E j \in DOMAIN wire' : j > i /\ wire'[j].of = "cached"
  <2>1. i + 1 \in DOMAIN wire /\ wire'[i] = wire[i + 1] /\ i \in Nat
    BY <1>1, WireAfterTail
  <2>2. CASE \E j \in DOMAIN wire : j > i + 1 /\ wire[j].of = "cached"
    <3>1. PICK j \in DOMAIN wire : j > i + 1 /\ wire[j].of = "cached"
      BY <2>2
    <3>2. j \in Nat /\ j - 1 > i /\ j # 1
      BY <2>1, <3>1
    <3>3. j - 1 \in DOMAIN wire' /\ wire'[j - 1] = wire[j]
      BY <3>1, <3>2, WireAfterTail
    <3> QED
      BY <3>1, <3>2, <3>3
  <2> QED
    BY <2>1, <2>2 DEF WireInv
<1> QED
  BY <1>1 DEF WireInv

-----------------------------------------------------------------------------------
(* Every variable keeps its type; an item changes at most as often as the server does. *)
LEMMA SocketTypesStep ==
  SocketTypeOK /\ ItemInv /\ [SocketNext]_socketVars => (SocketTypeOK /\ ItemInv)'
<1> SUFFICES ASSUME SocketTypeOK, ItemInv, [SocketNext]_socketVars
             PROVE  (SocketTypeOK /\ ItemInv)'
  OBVIOUS
<1> USE EventSocketAssumption
DEF SocketTypeOK, ItemInv, Changes, Generations, pageVars, cycleVars, link, Kinds
<1>1. ASSUME NEW k \in Kinds, NEW event \in {"userData", "library"}, ItemChanges(k, event)
      PROVE  (SocketTypeOK /\ ItemInv)'
  <2>1. item' \in [Kinds -> Changes] /\ changes' \in Changes /\ wire' \in Seq(Events)
    BY <1>1, WhatChanges, WireAfterAppend
  <2>2. ASSUME NEW q \in Kinds
        PROVE  item'[q] <= changes'
    <3>1. item'[q] = IF q = k THEN item[k] + 1 ELSE item[q]
      BY <1>1, WhatChanges
    <3>2. item[q] \in Nat /\ item[k] \in Nat /\ changes \in Nat /\ changes' = changes + 1
      BY <1>1, WhatChanges, EventSocketAssumption, SMTT(30)
    <3> QED
      BY <3>1, <3>2
  <2> QED
    BY <1>1, <2>1, <2>2 DEF ItemChanges, Events
<1>2. CASE SignInAgain
  <2>1. generation + 1 \in 1 .. MaxGenerations /\ item["live"] \in 0 .. MaxItemChanges
    BY <1>2 DEF SignInAgain, Kinds
  <2>2. SocketTypeOK'
    BY <1>2, <2>1 DEF SignInAgain
  <2> QED
    BY <1>2, <2>2 DEF SignInAgain
<1>3. CASE OpenPage
  BY <1>3 DEF OpenPage
<1>4. CASE PageRefetches
  BY <1>4 DEF PageRefetches
<1>5. CASE CycleReads
  BY <1>5 DEF CycleReads
<1>6. CASE CycleCommits
  BY <1>6 DEF CycleCommits
<1>7. CASE Connect
  BY <1>7 DEF Connect
<1>8. CASE Reconcile
  BY <1>8 DEF Reconcile, OnConnect, Resync
<1>9. CASE ConnectionLost
  BY <1>9 DEF ConnectionLost, Drop
<1>10. CASE SessionChanged
  BY <1>10 DEF SessionChanged, Drop
<1>11. CASE ApplyUserData
  <2>1. wire' \in Seq(Events) /\ Head(wire).state \in Changes
    BY <1>11, WireAfterTail DEF ApplyUserData, Receives, Events
  <2> QED
    BY <1>11, <2>1 DEF ApplyUserData, Receives, Events
<1>12. CASE FetchChanged
  <2>1. wire' \in Seq(Events)
    BY <1>12, WireAfterTail DEF FetchChanged, Receives, Events
  <2> QED
    BY <1>12, <2>1 DEF FetchChanged, Receives, Events, Kinds
<1>13. CASE FetchFails
  <2>1. wire' \in Seq(Events)
    BY <1>13, WireAfterTail DEF FetchFails, Receives, Events
  <2> QED
    BY <1>13, <2>1 DEF FetchFails, Receives, Events, Kinds
<1>14. CASE CommitChanged
  BY <1>14 DEF CommitChanged
<1>15. CASE AnnounceLive
  <2>1. wire' \in Seq(Events)
    BY <1>15, WireAfterTail DEF AnnounceLive, Receives, Events
  <2> QED
    BY <1>15, <2>1 DEF AnnounceLive, Receives, Events, Kinds
<1>16. CASE UNCHANGED socketVars
  BY <1>16 DEF socketVars
<1> QED
  BY <1>1, <1>2, <1>3, <1>4, <1>5, <1>6, <1>7, <1>8, <1>9, <1>10, <1>11, <1>12, <1>13, <1>14,
     <1>15, <1>16 DEF SocketNext, Kinds

(* A lost connection is one of the past, and nothing is on its way without one. *)
LEMMA LinkStep ==
  SocketTypeOK /\ ItemInv /\ LinkInv /\ [SocketNext]_socketVars => LinkInv'
<1> SUFFICES ASSUME SocketTypeOK, ItemInv, LinkInv, [SocketNext]_socketVars
             PROVE  LinkInv'
  OBVIOUS
<1> USE EventSocketAssumption
DEF SocketTypeOK, LinkInv, Generations, pageVars, cycleVars, link
<1>1. ASSUME NEW k \in Kinds, NEW event \in {"userData", "library"}, ItemChanges(k, event)
      PROVE  LinkInv'
  BY <1>1, WhatChanges DEF ItemChanges
<1>2. CASE SignInAgain
  BY <1>2 DEF SignInAgain
<1>3. CASE OpenPage
  BY <1>3 DEF OpenPage
<1>4. CASE PageRefetches
  BY <1>4 DEF PageRefetches
<1>5. CASE CycleReads
  BY <1>5 DEF CycleReads
<1>6. CASE CycleCommits
  BY <1>6 DEF CycleCommits
<1>7. CASE Connect
  BY <1>7 DEF Connect
<1>8. CASE Reconcile
  BY <1>8 DEF Reconcile, OnConnect, Resync
<1>9. CASE ConnectionLost
  BY <1>9 DEF ConnectionLost, Drop
<1>10. CASE SessionChanged
  BY <1>10 DEF SessionChanged, Drop
<1>11. CASE ApplyUserData
  BY <1>11 DEF ApplyUserData, Receives
<1>12. CASE FetchChanged
  BY <1>12 DEF FetchChanged, Receives
<1>13. CASE FetchFails
  BY <1>13 DEF FetchFails, Receives
<1>14. CASE CommitChanged
  BY <1>14 DEF CommitChanged
<1>15. CASE AnnounceLive
  BY <1>15 DEF AnnounceLive, Receives
<1>16. CASE UNCHANGED socketVars
  BY <1>16 DEF socketVars
<1> QED
  BY <1>1, <1>2, <1>3, <1>4, <1>5, <1>6, <1>7, <1>8, <1>9, <1>10, <1>11, <1>12, <1>13, <1>14,
     <1>15, <1>16 DEF SocketNext, Kinds

(* The last event of the cached item carries what the item is now. *)
LEMMA WireStep ==
  SocketTypeOK /\ ItemInv /\ LinkInv /\ WireInv /\ [SocketNext]_socketVars => WireInv'
<1> SUFFICES ASSUME SocketTypeOK, ItemInv, LinkInv, WireInv, [SocketNext]_socketVars
             PROVE  WireInv'
  OBVIOUS
<1> USE DEF pageVars, cycleVars, link, WireInv
<1>1. ASSUME NEW k \in Kinds, NEW event \in {"userData", "library"}, ItemChanges(k, event)
      PROVE  WireInv'
  <2>1. CASE socketAt = "wait"
    BY <1>1, <2>1, WhatChanges DEF LinkInv, WireInv
  <2>2. CASE socketAt # "wait"
    <3>1. PICK e \in Events : wire' = Append(wire, e) /\ e.of = k /\ e.state = item'[k]
      BY <1>1, <2>2, WhatChanges
    <3>2. k # "cached" => item'["cached"] = item["cached"]
      BY <1>1, WhatChanges DEF Kinds
    <3>3. wire \in Seq(Events) /\ Len(wire) \in Nat
      BY DEF SocketTypeOK, Events
    <3>4. ASSUME NEW i \in DOMAIN wire'
          PROVE  \/ wire'[i].of # "cached" \/ wire'[i].state = item'["cached"]
                 \/ \E j \in DOMAIN wire' : j > i /\ wire'[j].of = "cached"
      <4>1. CASE i \notin DOMAIN wire
        BY <3>1, <3>3, <3>4, <4>1, WireAfterAppend
      <4>2. CASE i \in DOMAIN wire /\ k = "cached"
        BY <3>1, <3>3, <4>2, WireAfterAppend
      <4>3. CASE i \in DOMAIN wire /\ k # "cached"
        BY <3>1, <3>2, <3>3, <4>3, WireAfterAppend DEF WireInv
      <4> QED
        BY <4>1, <4>2, <4>3
    <3> QED
      BY <3>4 DEF WireInv
  <2> QED
    BY <2>1, <2>2
<1>2. CASE SignInAgain
  BY <1>2 DEF SignInAgain
<1>3. CASE OpenPage
  BY <1>3 DEF OpenPage
<1>4. CASE PageRefetches
  BY <1>4 DEF PageRefetches
<1>5. CASE CycleReads
  BY <1>5 DEF CycleReads
<1>6. CASE CycleCommits
  BY <1>6 DEF CycleCommits
<1>7. CASE Connect
  BY <1>7 DEF Connect
<1>8. CASE Reconcile
  BY <1>8 DEF Reconcile, OnConnect, Resync
<1>9. CASE ConnectionLost
  BY <1>9 DEF ConnectionLost, Drop
<1>10. CASE SessionChanged
  BY <1>10 DEF SessionChanged, Drop
<1>11. CASE ApplyUserData
  <2>1. wire \in Seq(Events) /\ wire # << >> /\ wire' = Tail(wire) /\ item' = item
    BY <1>11 DEF ApplyUserData, Receives, SocketTypeOK, Events
  <2> QED
    BY <2>1, ReadLeavesLatest
<1>12. CASE FetchChanged
  <2>1. wire \in Seq(Events) /\ wire # << >> /\ wire' = Tail(wire) /\ item' = item
    BY <1>12 DEF FetchChanged, Receives, SocketTypeOK, Events
  <2> QED
    BY <2>1, ReadLeavesLatest
<1>13. CASE FetchFails
  <2>1. wire \in Seq(Events) /\ wire # << >> /\ wire' = Tail(wire) /\ item' = item
    BY <1>13 DEF FetchFails, Receives, SocketTypeOK, Events
  <2> QED
    BY <2>1, ReadLeavesLatest
<1>14. CASE CommitChanged
  BY <1>14 DEF CommitChanged
<1>15. CASE AnnounceLive
  <2>1. wire \in Seq(Events) /\ wire # << >> /\ wire' = Tail(wire) /\ item' = item
    BY <1>15 DEF AnnounceLive, Receives, SocketTypeOK, Events
  <2> QED
    BY <2>1, ReadLeavesLatest
<1>16. CASE UNCHANGED socketVars
  BY <1>16 DEF socketVars
<1> QED
  BY <1>1, <1>2, <1>3, <1>4, <1>5, <1>6, <1>7, <1>8, <1>9, <1>10, <1>11, <1>12, <1>13, <1>14,
     <1>15, <1>16 DEF SocketNext, Kinds

(* An answer yet to be committed is the present state, or an event follows. *)
LEMMA FetchedStep ==
  SocketTypeOK /\ ItemInv /\ LinkInv /\ FetchedInv /\ [SocketNext]_socketVars => FetchedInv'
<1> SUFFICES ASSUME SocketTypeOK, ItemInv, LinkInv, FetchedInv, [SocketNext]_socketVars
             PROVE  FetchedInv'
  OBVIOUS
<1> USE DEF pageVars, cycleVars, link, OnTheWire, FetchedInv
<1>1. ASSUME NEW k \in Kinds, NEW event \in {"userData", "library"}, ItemChanges(k, event)
      PROVE  FetchedInv'
  <2>1. CASE fetched = << >>
    BY <1>1, <2>1 DEF ItemChanges, FetchedInv
  <2>2. CASE fetched # << >>
    <3>1. PICK e \in Events : wire' = Append(wire, e) /\ e.of = k
      BY <1>1, <2>2, WhatChanges DEF LinkInv
    <3>2. wire \in Seq(Events)
      BY DEF SocketTypeOK, Events
    <3>3. OnTheWire(k)' /\ (OnTheWire("cached") => OnTheWire("cached")')
      BY <3>1, <3>2, WireAfterAppend DEF Kinds
    <3>4. k # "cached" => item'["cached"] = item["cached"]
      BY <1>1, WhatChanges DEF Kinds
    <3> QED
      BY <1>1, <3>3, <3>4 DEF ItemChanges, FetchedInv
  <2> QED
    BY <2>1, <2>2
<1>2. CASE SignInAgain
  BY <1>2 DEF SignInAgain
<1>3. CASE OpenPage
  BY <1>3 DEF OpenPage
<1>4. CASE PageRefetches
  BY <1>4 DEF PageRefetches
<1>5. CASE CycleReads
  BY <1>5 DEF CycleReads
<1>6. CASE CycleCommits
  BY <1>6 DEF CycleCommits
<1>7. CASE Connect
  BY <1>7 DEF Connect, LinkInv
<1>8. CASE Reconcile
  BY <1>8 DEF Reconcile, OnConnect, Resync
<1>9. CASE ConnectionLost
  BY <1>9 DEF ConnectionLost, Drop
<1>10. CASE SessionChanged
  BY <1>10 DEF SessionChanged, Drop
<1>11. CASE ApplyUserData
  BY <1>11 DEF ApplyUserData, Receives
<1>12. CASE FetchChanged
  BY <1>12 DEF FetchChanged, Receives
<1>13. CASE FetchFails
  BY <1>13 DEF FetchFails, Receives
<1>14. CASE CommitChanged
  BY <1>14 DEF CommitChanged
<1>15. CASE AnnounceLive
  BY <1>15 DEF AnnounceLive, Receives
<1>16. CASE UNCHANGED socketVars
  BY <1>16 DEF socketVars
<1> QED
  BY <1>1, <1>2, <1>3, <1>4, <1>5, <1>6, <1>7, <1>8, <1>9, <1>10, <1>11, <1>12, <1>13, <1>14,
     <1>15, <1>16 DEF SocketNext, Kinds

(* A cycle's page is never ahead of the server, nor its session of the session. *)
LEMMA CycleStep ==
  SocketTypeOK /\ ItemInv /\ CycleInv /\ [SocketNext]_socketVars => CycleInv'
<1> SUFFICES ASSUME SocketTypeOK, ItemInv, CycleInv, [SocketNext]_socketVars
             PROVE  CycleInv'
  OBVIOUS
<1> USE EventSocketAssumption
DEF SocketTypeOK, CycleInv, Changes, Generations, Kinds, pageVars, cycleVars, link
<1>1. ASSUME NEW k \in Kinds, NEW event \in {"userData", "library"}, ItemChanges(k, event)
      PROVE  CycleInv'
  <2>1. item'["cached"] \in Nat /\ item["cached"] \in Nat /\ item["cached"] <= item'["cached"]
    <3>1. /\ item["cached"] \in Nat /\ item[k] \in Nat
          /\ item'["cached"] = IF k = "cached" THEN item[k] + 1 ELSE item["cached"]
      BY <1>1, WhatChanges
    <3> QED
      BY <3>1
  <2> QED
    BY <1>1, <2>1 DEF ItemChanges
<1>2. CASE SignInAgain
  BY <1>2 DEF SignInAgain
<1>3. CASE OpenPage
  BY <1>3 DEF OpenPage
<1>4. CASE PageRefetches
  BY <1>4 DEF PageRefetches
<1>5. CASE CycleReads
  BY <1>5 DEF CycleReads
<1>6. CASE CycleCommits
  BY <1>6 DEF CycleCommits
<1>7. CASE Connect
  BY <1>7 DEF Connect
<1>8. CASE Reconcile
  BY <1>8 DEF Reconcile, OnConnect, Resync
<1>9. CASE ConnectionLost
  BY <1>9 DEF ConnectionLost, Drop
<1>10. CASE SessionChanged
  BY <1>10 DEF SessionChanged, Drop
<1>11. CASE ApplyUserData
  BY <1>11 DEF ApplyUserData, Receives
<1>12. CASE FetchChanged
  BY <1>12 DEF FetchChanged, Receives
<1>13. CASE FetchFails
  BY <1>13 DEF FetchFails, Receives
<1>14. CASE CommitChanged
  BY <1>14 DEF CommitChanged
<1>15. CASE AnnounceLive
  BY <1>15 DEF AnnounceLive, Receives
<1>16. CASE UNCHANGED socketVars
  BY <1>16 DEF socketVars
<1> QED
  BY <1>1, <1>2, <1>3, <1>4, <1>5, <1>6, <1>7, <1>8, <1>9, <1>10, <1>11, <1>12, <1>13, <1>14,
     <1>15, <1>16 DEF SocketNext, Kinds

(* Whatever the cache is given, it has the state of the server or a newer one follows. *)
LEMMA CacheStep ==
  SocketTypeOK /\ ItemInv /\ LinkInv /\ WireInv /\ FetchedInv /\ CycleInv /\ CacheIsCatchingUp
  /\ [SocketNext]_socketVars => CacheIsCatchingUp'
<1> SUFFICES ASSUME SocketTypeOK, ItemInv, LinkInv, WireInv, FetchedInv,
                    CycleInv, CacheIsCatchingUp, [SocketNext]_socketVars
             PROVE  CacheIsCatchingUp'
  OBVIOUS
<1> USE DEF CacheIsCatchingUp, Listening, pageVars, cycleVars, link, OnTheWire
<1>1. ASSUME NEW k \in Kinds, NEW event \in {"userData", "library"}, ItemChanges(k, event)
      PROVE  CacheIsCatchingUp'
  <2>1. CASE socketAt = "wait"
    BY <1>1, <2>1 DEF ItemChanges
  <2>2. CASE socketAt # "wait"
    <3>1. PICK e \in Events : wire' = Append(wire, e) /\ e.of = k
      BY <1>1, <2>2, WhatChanges
    <3>2. wire \in Seq(Events)
      BY DEF SocketTypeOK, Events
    <3>3. OnTheWire(k)' /\ (OnTheWire("cached") => OnTheWire("cached")')
      BY <3>1, <3>2, WireAfterAppend DEF Kinds
    <3>4. k # "cached" => item'["cached"] = item["cached"]
      BY <1>1, WhatChanges DEF Kinds
    <3> QED
      BY <1>1, <3>3, <3>4 DEF ItemChanges
  <2> QED
    BY <2>1, <2>2
<1>2. CASE SignInAgain
  BY <1>2 DEF SignInAgain
<1>3. CASE OpenPage
  BY <1>3 DEF OpenPage
<1>4. CASE PageRefetches
  BY <1>4 DEF PageRefetches
<1>5. CASE CycleReads
  BY <1>5 DEF CycleReads
<1>6. CASE CycleCommits
  <2>1. CASE cycleRead[2] # generation
    BY <1>6, <2>1 DEF CycleCommits, OnTheWire
  <2>2. CASE cycleRead[2] = generation
    <3>1. /\ cache' = cycleRead[1] /\ overtaken' = (overtaken \/ cycleRead[1] < cache)
          /\ cycleRead # << >> /\ cycleRead' = << >> /\ item' = item /\ fetched' = fetched
          /\ syncRequested' = syncRequested /\ wire' = wire
          /\ socketAt' = socketAt /\ connection' = connection /\ generation' = generation
      BY <1>6, <2>2 DEF CycleCommits
    <3>2. cache \in Nat /\ item["cached"] \in Nat /\ cycleRead \in Changes \X Generations
      BY <3>1, EventSocketAssumption DEF SocketTypeOK, Changes, Kinds
    <3>3. cycleRead[1] \in Nat /\ cycleRead = <<cycleRead[1], cycleRead[2]>>
      BY <3>2, EventSocketAssumption DEF Changes
    <3>4. ASSUME Listening, cache' # item["cached"], ~overtaken'
          PROVE  OnTheWire("cached") \/ fetched # << >> \/ syncRequested
      <4>1. cycleRead[1] <= item["cached"] /\ cycleRead[1] # item["cached"]
        BY <3>1, <3>4 DEF CycleInv
      <4>2. ~overtaken /\ ~(cycleRead[1] < cache)
        BY <3>1, <3>4
      <4>3. cache # item["cached"]
        BY <4>1, <4>2, <3>2, <3>3
      <4>4. cycleRead # <<item["cached"], generation>>
        BY <4>1
      <4> QED
        BY <3>4, <4>2, <4>3, <4>4
    <3> QED
      BY <3>1, <3>4 DEF OnTheWire
  <2> QED
    BY <2>1, <2>2
<1>7. CASE Connect
  BY <1>7 DEF Connect
<1>8. CASE Reconcile
  BY <1>8 DEF Reconcile, OnConnect, Resync
<1>9. CASE ConnectionLost
  BY <1>9 DEF ConnectionLost, Drop
<1>10. CASE SessionChanged
  BY <1>10 DEF SessionChanged, Drop
<1>11. CASE ApplyUserData
  <2>1. wire \in Seq(Events) /\ wire # << >> /\ wire' = Tail(wire) /\ fetched = << >>
    BY <1>11 DEF ApplyUserData, Receives, SocketTypeOK, Events
  <2>2. /\ item' = item /\ connection' = connection /\ generation' = generation
        /\ Head(wire).of = "cached"
        /\ cache' = IF connection = generation THEN Head(wire).state ELSE cache
    BY <1>11 DEF ApplyUserData, Receives
  <2>3. ASSUME Listening', cache' # item["cached"]
        PROVE  OnTheWire("cached")'
    <3>1. wire[1].of = "cached" /\ wire[1].state # item["cached"] /\ 1 \in DOMAIN wire
      BY <2>1, <2>2, <2>3, WireAfterTail
    <3>2. PICK j \in DOMAIN wire : j > 1 /\ wire[j].of = "cached"
      BY <3>1 DEF WireInv
    <3>3. j - 1 \in DOMAIN wire' /\ wire'[j - 1] = wire[j]
      BY <2>1, <3>2, WireAfterTail
    <3> QED
      BY <3>2, <3>3 DEF OnTheWire
  <2> QED
    BY <2>2, <2>3
<1>12. CASE FetchChanged
  BY <1>12 DEF FetchChanged, Receives
<1>13. CASE FetchFails
  BY <1>13 DEF FetchFails, Receives
<1>14. CASE CommitChanged
  <2>1. fetched # << >> => fetched[1] = item["cached"] \/ OnTheWire("cached")
    BY DEF FetchedInv
  <2> QED
    BY <1>14, <2>1 DEF CommitChanged, OnTheWire
<1>15. CASE AnnounceLive
  <2>1. wire \in Seq(Events) /\ wire # << >> /\ wire' = Tail(wire) /\ fetched = << >>
    BY <1>15 DEF AnnounceLive, Receives, SocketTypeOK, Events
  <2>2. Head(wire).of = "live"
    BY <1>15 DEF AnnounceLive, Receives
  <2>3. OnTheWire("cached") => OnTheWire("cached")'
    BY <2>1, <2>2, OnTheWireAfterTail DEF Kinds
  <2> QED
    BY <1>15, <2>1, <2>3 DEF AnnounceLive
<1>16. CASE UNCHANGED socketVars
  BY <1>16 DEF socketVars
<1> QED
  BY <1>1, <1>2, <1>3, <1>4, <1>5, <1>6, <1>7, <1>8, <1>9, <1>10, <1>11, <1>12, <1>13, <1>14,
     <1>15, <1>16 DEF SocketNext, Kinds

(* A page hears of every change, or of the reconnect that follows a lost one. *)
LEMMA PageStep ==
  SocketTypeOK /\ ItemInv /\ LinkInv /\ PageInv /\ [SocketNext]_socketVars => PageInv'
<1> SUFFICES ASSUME SocketTypeOK, ItemInv, LinkInv, PageInv, [SocketNext]_socketVars
             PROVE  PageInv'
  OBVIOUS
<1> USE DEF PageInv, pageVars, cycleVars, link, OnTheWire
<1>1. ASSUME NEW k \in Kinds, NEW event \in {"userData", "library"}, ItemChanges(k, event)
      PROVE  PageInv'
  <2>1. CASE socketAt = "wait"
    BY <1>1, <2>1 DEF ItemChanges
  <2>2. CASE socketAt # "wait"
    <3>1. PICK e \in Events : wire' = Append(wire, e) /\ e.of = k
      BY <1>1, <2>2, WhatChanges
    <3>2. wire \in Seq(Events)
      BY DEF SocketTypeOK, Events
    <3>3. OnTheWire(k)' /\ (OnTheWire("live") => OnTheWire("live")')
      BY <3>1, <3>2, WireAfterAppend DEF Kinds
    <3>4. k # "live" => item'["live"] = item["live"]
      BY <1>1, WhatChanges DEF Kinds
    <3> QED
      BY <1>1, <3>3, <3>4 DEF ItemChanges
  <2> QED
    BY <2>1, <2>2
<1>2. CASE SignInAgain
  BY <1>2 DEF SignInAgain
<1>3. CASE OpenPage
  BY <1>3, EventSocketAssumption DEF OpenPage, LinkInv, SocketTypeOK, Generations
<1>4. CASE PageRefetches
  BY <1>4 DEF PageRefetches
<1>5. CASE CycleReads
  BY <1>5 DEF CycleReads
<1>6. CASE CycleCommits
  BY <1>6 DEF CycleCommits
<1>7. CASE Connect
  BY <1>7 DEF Connect
<1>8. CASE Reconcile
  BY <1>8 DEF Reconcile, Resync
<1>9. CASE ConnectionLost
  BY <1>9 DEF ConnectionLost, Drop
<1>10. CASE SessionChanged
  BY <1>10 DEF SessionChanged, Drop
<1>11. CASE ApplyUserData
  <2>1. wire \in Seq(Events) /\ wire # << >> /\ wire' = Tail(wire) /\ fetched = << >>
    BY <1>11 DEF ApplyUserData, Receives, SocketTypeOK, Events
  <2>2. Head(wire).of = "cached"
    BY <1>11 DEF ApplyUserData, Receives
  <2>3. OnTheWire("live") => OnTheWire("live")'
    BY <2>1, <2>2, OnTheWireAfterTail DEF Kinds
  <2> QED
    BY <1>11, <2>1, <2>3 DEF ApplyUserData, Receives
<1>12. CASE FetchChanged
  <2>1. wire \in Seq(Events) /\ wire # << >> /\ wire' = Tail(wire) /\ fetched = << >>
    BY <1>12 DEF FetchChanged, Receives, SocketTypeOK, Events
  <2>2. Head(wire).of = "cached"
    BY <1>12 DEF FetchChanged, Receives
  <2>3. OnTheWire("live") => OnTheWire("live")'
    BY <2>1, <2>2, OnTheWireAfterTail DEF Kinds
  <2> QED
    BY <1>12, <2>1, <2>3 DEF FetchChanged, Receives
<1>13. CASE FetchFails
  <2>1. wire \in Seq(Events) /\ wire # << >> /\ wire' = Tail(wire) /\ fetched = << >>
    BY <1>13 DEF FetchFails, Receives, SocketTypeOK, Events
  <2>2. Head(wire).of = "cached"
    BY <1>13 DEF FetchFails, Receives
  <2>3. OnTheWire("live") => OnTheWire("live")'
    BY <2>1, <2>2, OnTheWireAfterTail DEF Kinds
  <2> QED
    BY <1>13, <2>1, <2>3 DEF FetchFails, Receives
<1>14. CASE CommitChanged
  BY <1>14 DEF CommitChanged
<1>15. CASE AnnounceLive
  BY <1>15 DEF AnnounceLive, Receives
<1>16. CASE UNCHANGED socketVars
  BY <1>16 DEF socketVars
<1> QED
  BY <1>1, <1>2, <1>3, <1>4, <1>5, <1>6, <1>7, <1>8, <1>9, <1>10, <1>11, <1>12, <1>13, <1>14,
     <1>15, <1>16 DEF SocketNext, Kinds

-----------------------------------------------------------------------------------
(* The parts together are inductive. *)
LEMMA SocketInvStep ==
  SocketTypeOK /\ SocketInv /\ [SocketNext]_socketVars => SocketTypeOK' /\ SocketInv'
BY SocketTypesStep, LinkStep, WireStep, FetchedStep, CycleStep, CacheStep, PageStep
DEF SocketInv

(* They hold as the thread starts, before any connection. *)
LEMMA SocketInvInit == SocketInit => SocketTypeOK /\ SocketInv
<1> SUFFICES ASSUME SocketInit
             PROVE  SocketTypeOK /\ SocketInv
  OBVIOUS
<1> USE EventSocketAssumption DEF SocketInit, Kinds
<1>1. SocketTypeOK
  <2>1. item \in [Kinds -> Changes] /\ 0 \in Changes /\ 1 \in Generations
    BY DEF Changes, Generations
  <2>2. wire \in Seq([event : {"userData", "library"}, of : Kinds, state : Changes])
        /\ fetched \in Seq(Changes) /\ Len(fetched) <= 1
    OBVIOUS
  <2>3. changes \in Changes /\ losses \in 0 .. MaxLosses /\ {connection, lostGeneration} = {0}
    BY DEF Changes
  <2>4. pageEarly \in BOOLEAN /\ refetching \in BOOLEAN /\ syncRequested \in BOOLEAN
        /\ overtaken \in BOOLEAN
    BY Zenon DEF SocketInit
  <2>5. connection \in 0 .. MaxGenerations /\ lostGeneration \in 0 .. MaxGenerations
    OBVIOUS
  <2>6. cycleRead \in {<< >>} \cup (Changes \X Generations)
    BY Zenon DEF SocketInit
  <2> QED
    BY ONLY <2>1, <2>2, <2>3, <2>4, <2>5, <2>6, SocketInit DEF SocketInit, SocketTypeOK
<1>2. ItemInv /\ LinkInv /\ WireInv /\ FetchedInv /\ CycleInv
  BY DEF ItemInv, LinkInv, WireInv, FetchedInv, CycleInv
<1>3. CacheIsCatchingUp /\ PageInv
  BY DEF CacheIsCatchingUp, Listening, PageInv
<1> QED
  BY <1>1, <1>2, <1>3 DEF SocketInv

(* The thread's variables, the events on the wire and what was fetched keep their types *)
(* (socket.rs).                                                                       *)
THEOREM SocketTypes == SocketSpec => []SocketTypeOK
BY SocketInvInit, SocketInvStep, PTL DEF SocketSpec

(* Whatever events are lost with a connection or with a session, while the thread      *)
(* listens for the signed-in account a cache or a page that is behind the server is on  *)
(* its way to catch up (run, apply_user_data, apply_library_change, lost_generation).   *)
THEOREM ViewsCatchUp == SocketSpec => []ViewsAreCatchingUp
<1>1. SocketInv => ViewsAreCatchingUp
  BY DEF SocketInv, PageInv, ViewsAreCatchingUp, PageIsCatchingUp, Listening
<1> QED
  BY <1>1, SocketInvInit, SocketInvStep, PTL DEF SocketSpec

-----------------------------------------------------------------------------------
(* Collections.  *)
(* Snapshots follow the profiles, for every set of profiles and any number of edits:   *)
(* what Collections promises is not inductive by itself.  An edit that changes no       *)
(* results commits the revision it read when the dialog was opened, so it is needed     *)
(* that this revision is still the profile's (EditsAreCurrent), and an edit must not    *)
(* bring back a profile that was deleted (EditsSpareDeleted): both rest on the one      *)
(* dialog that edits and deletes, while refreshes go on beside it.                      *)

EditsAreCurrent == editing.op = "cosmetic" => profile[editing.id] = editing.rev
EditsSpareDeleted == editing # NoRequest => editing.id \notin deleted

CollectionsInv ==
  ConfiguredHasResults /\ DeletedStaysDeleted /\ EditsAreCurrent /\ EditsSpareDeleted

-----------------------------------------------------------------------------------
(* Every variable keeps its type in a step of the dialog or of a refresh. *)
LEMMA CollectionsTypesStep ==
  CollectionsTypeOK /\ [CollectionsNext]_collectionVars => CollectionsTypeOK'
<1> SUFFICES ASSUME CollectionsTypeOK, [CollectionsNext]_collectionVars
             PROVE  CollectionsTypeOK'
  OBVIOUS
<1> USE CollectionsAssumption DEF CollectionsTypeOK, Rows, NoRequest
<1>1. ASSUME NEW p \in Profiles, StartResultEdit(p)
      PROVE  CollectionsTypeOK'
  BY <1>1 DEF StartResultEdit
<1>2. ASSUME NEW p \in Profiles, StartCosmeticEdit(p)
      PROVE  CollectionsTypeOK'
  <2>1. profile[p] \in 1 .. MaxRevision
    BY <1>2 DEF StartCosmeticEdit
  <2> QED
    BY <1>2, <2>1 DEF StartCosmeticEdit
<1>3. ASSUME NEW p \in Profiles, Delete(p)
      PROVE  CollectionsTypeOK'
  <2>1. profile' \in [Profiles -> 0 .. MaxRevision] /\ deleted' \subseteq Profiles
    BY <1>3 DEF Delete
  <2>2. snapshot' \subseteq Rows /\ refreshed' \subseteq Profiles
    BY <1>3 DEF Delete, RowsOf
  <2>3. commitFaults' \in 0 .. MaxCommitFaults
    BY <1>3 DEF Delete
  <2> QED
    BY <1>3, <2>1, <2>2, <2>3 DEF Delete
<1>4. ASSUME NEW p \in Profiles, StartManualRefresh(p)
      PROVE  CollectionsTypeOK'
  <2>1. profile[p] \in 1 .. MaxRevision
    BY <1>4 DEF StartManualRefresh
  <2> QED
    BY <1>4, <2>1 DEF StartManualRefresh
<1>5. ASSUME NEW p \in Profiles, StartAutomaticRefresh(p)
      PROVE  CollectionsTypeOK'
  <2>1. profile[p] \in 1 .. MaxRevision
    BY <1>5 DEF StartAutomaticRefresh
  <2> QED
    BY <1>5, <2>1 DEF StartAutomaticRefresh
<1>6. CASE CommitResultEdit
  <2>1. editing.id \in Profiles /\ editing.rev \in 1 .. MaxRevision
    BY <1>6 DEF CommitResultEdit
  <2>2. profile' \in [Profiles -> 0 .. MaxRevision]
    BY <1>6, <2>1 DEF CommitResultEdit
  <2>3. snapshot' \subseteq Rows
    BY <1>6, <2>1 DEF CommitResultEdit, Referenced
  <2> QED
    BY <1>6, <2>1, <2>2, <2>3 DEF CommitResultEdit
<1>7. CASE CommitResultEditFails
  <2>1. editing.id \in Profiles /\ editing.rev \in 1 .. MaxRevision
    BY <1>7 DEF CommitResultEditFails
  <2> QED
    BY <1>7, <2>1 DEF CommitResultEditFails
<1>8. CASE EditFails
  BY <1>8 DEF EditFails
<1>9. CASE CommitCosmeticEdit
  <2>1. editing.id \in Profiles /\ editing.rev \in 1 .. MaxRevision
    BY <1>9 DEF CommitCosmeticEdit
  <2> QED
    BY <1>9, <2>1 DEF CommitCosmeticEdit
<1>10. CASE CommitManualRefresh
  <2>1. manual.id \in Profiles /\ manual.rev \in 1 .. MaxRevision
    BY <1>10 DEF CommitManualRefresh
  <2> QED
    BY <1>10, <2>1 DEF CommitManualRefresh, AfterRefresh
<1>11. CASE StillCurrent
  <2>1. automatic.id \in Profiles /\ automatic.rev \in 1 .. MaxRevision
    BY <1>11 DEF StillCurrent
  <2> QED
    BY <1>11, <2>1 DEF StillCurrent
<1>12. CASE CommitAutomaticRefresh
  <2>1. automatic.id \in Profiles /\ automatic.rev \in 1 .. MaxRevision
    BY <1>12 DEF CommitAutomaticRefresh
  <2> QED
    BY <1>12, <2>1 DEF CommitAutomaticRefresh
<1>13. CASE UNCHANGED collectionVars
  BY <1>13 DEF collectionVars
<1> QED
  BY <1>1, <1>2, <1>3, <1>4, <1>5, <1>6, <1>7, <1>8, <1>9, <1>10, <1>11, <1>12, <1>13
  DEF CollectionsNext

(* A step keeps the results of every configured profile, and deleted ones deleted. *)
LEMMA CollectionsInvStep ==
  CollectionsTypeOK /\ CollectionsInv /\ [CollectionsNext]_collectionVars => CollectionsInv'
<1> SUFFICES ASSUME CollectionsTypeOK, CollectionsInv, [CollectionsNext]_collectionVars
             PROVE  CollectionsInv'
  OBVIOUS
<1> USE DEF CollectionsInv, ConfiguredHasResults, DeletedStaysDeleted, EditsAreCurrent,
            EditsSpareDeleted
<1>0. /\ profile \in [Profiles -> 0 .. MaxRevision] /\ deleted \subseteq Profiles
      /\ editing # NoRequest => editing.id \in Profiles /\ editing.rev \in 1 .. MaxRevision
      /\ NoRequest.op = "none"
  BY DEF CollectionsTypeOK, NoRequest
<1>1. ASSUME NEW p \in Profiles, StartResultEdit(p)
      PROVE  CollectionsInv'
  BY <1>1, <1>0 DEF StartResultEdit
<1>2. ASSUME NEW p \in Profiles, StartCosmeticEdit(p)
      PROVE  CollectionsInv'
  BY <1>2, <1>0 DEF StartCosmeticEdit
<1>3. ASSUME NEW p \in Profiles, Delete(p)
      PROVE  CollectionsInv'
  <2>1. /\ profile' = [profile EXCEPT ![p] = 0] /\ deleted' = deleted \cup {p}
        /\ snapshot \ RowsOf(p) \subseteq snapshot' /\ editing' = editing /\ editing = NoRequest
    BY <1>3 DEF Delete
  <2>2. ASSUME NEW q \in Profiles, profile'[q] # 0
        PROVE  <<q, profile'[q]>> \in snapshot'
    <3>1. q # p /\ profile'[q] = profile[q]
      BY <2>1, <2>2, <1>0
    <3> QED
      BY <3>1, <2>1, <2>2 DEF RowsOf
  <2> QED
    BY <2>1, <2>2, <1>0
<1>4. ASSUME NEW p \in Profiles, StartManualRefresh(p)
      PROVE  CollectionsInv'
  BY <1>4 DEF StartManualRefresh
<1>5. ASSUME NEW p \in Profiles, StartAutomaticRefresh(p)
      PROVE  CollectionsInv'
  BY <1>5 DEF StartAutomaticRefresh
<1>6. CASE CommitResultEdit
  <2>1. /\ editing # NoRequest /\ editing.id \notin deleted /\ editing' = NoRequest
        /\ deleted' = deleted /\ profile' = [profile EXCEPT ![editing.id] = editing.rev]
        /\ snapshot' = Referenced(profile', snapshot \cup {<<editing.id, editing.rev>>})
    BY <1>6, <1>0 DEF CommitResultEdit
  <2>2. ASSUME NEW q \in Profiles, profile'[q] # 0
        PROVE  <<q, profile'[q]>> \in snapshot'
    <3>1. <<q, profile'[q]>> \in snapshot \cup {<<editing.id, editing.rev>>}
      BY <2>1, <2>2, <1>0
    <3> QED
      BY <3>1, <2>1 DEF Referenced
  <2>3. \A q \in deleted' : profile'[q] = 0
    BY <2>1, <1>0
  <2> QED
    BY <2>1, <2>2, <2>3, <1>0
<1>7. CASE CommitResultEditFails
  BY <1>7, <1>0 DEF CommitResultEditFails
<1>8. CASE EditFails
  BY <1>8, <1>0 DEF EditFails
<1>9. CASE CommitCosmeticEdit
  <2>1. profile' = profile
    BY <1>9, <1>0 DEF CommitCosmeticEdit
  <2> QED
    BY <1>9, <2>1, <1>0 DEF CommitCosmeticEdit
<1>10. CASE CommitManualRefresh
  BY <1>10 DEF CommitManualRefresh, AfterRefresh
<1>11. CASE StillCurrent
  BY <1>11 DEF StillCurrent
<1>12. CASE CommitAutomaticRefresh
  BY <1>12 DEF CommitAutomaticRefresh
<1>13. CASE UNCHANGED collectionVars
  BY <1>13 DEF collectionVars
<1> QED
  BY <1>1, <1>2, <1>3, <1>4, <1>5, <1>6, <1>7, <1>8, <1>9, <1>10, <1>11, <1>12, <1>13
  DEF CollectionsNext

-----------------------------------------------------------------------------------
(* The records of the profiles, their snapshots and the requests under way keep their *)
(* types (collection_service.rs).                                                     *)
THEOREM CollectionsTypes == CollectionsSpec => []CollectionsTypeOK
<1>1. CollectionsInit => CollectionsTypeOK
  BY CollectionsAssumption DEF CollectionsInit, CollectionsTypeOK
<1> QED
  BY <1>1, CollectionsTypesStep, PTL DEF CollectionsSpec

(* However edits, deletions, refreshes of the user and of the scheduler and failed     *)
(* commits cross, a configured profile has the results of the revision it is saved     *)
(* with, and a deleted one does not come back (commit_result_profile, refresh_profile). *)
THEOREM SnapshotsAreKept == CollectionsSpec => []SnapshotsFollowProfiles
<1>1. CollectionsInit => CollectionsInv
  BY DEF CollectionsInit, CollectionsInv, ConfiguredHasResults, DeletedStaysDeleted,
         EditsAreCurrent, EditsSpareDeleted, NoRequest
<1>2. CollectionsInv => SnapshotsFollowProfiles
  BY DEF CollectionsInv, SnapshotsFollowProfiles
<1> QED
  BY <1>1, <1>2, CollectionsInvStep, CollectionsTypes, PTL DEF CollectionsSpec

-----------------------------------------------------------------------------------
(* Settings documents.  *)
(* A settings document with its backup implements AtomicDocument, for any number of    *)
(* saves and damages and wherever the program may end.  The refinement maps what the   *)
(* next start reads to `saved` and what a damage leaves to `prior`.  It needs to know   *)
(* which steps the running program can be in (StepInv), and that versions only grow     *)
(* (VersionInv): otherwise a save could write what the program already works with.      *)
(* That an account's part stays removed rests on RemovedInv: once remove_account has    *)
(* answered, neither the file nor the backup is older than the removal.                 *)

StepInv ==
  /\ step \in {"closed", "recover"} <=> memory = Missing
  /\ step = "recover" => primary = Missing
  /\ step = "scrub" => primary = numbered /\ memory = numbered

VersionInv ==
  /\ memory <= numbered /\ primary <= numbered /\ copy <= numbered /\ removedAt <= numbered
  /\ step \in {"backup", "write"} => memory < numbered

RemovedStaysRemoved == memory # Missing => memory = 0 \/ memory >= removedAt

RemovedInv ==
  /\ Readable(primary) => primary >= removedAt
  /\ Readable(copy) => copy >= removedAt
  /\ step \in {"backup", "write"} => removedAt < numbered
  /\ RemovedStaysRemoved

DocumentInv == StepInv /\ VersionInv /\ RemovedInv

-----------------------------------------------------------------------------------
(* Every variable keeps its type: what becomes the backup is a document. *)
LEMMA DocumentTypesStep == JsonTypeOK /\ StepInv /\ [JsonNext]_jsonVars => JsonTypeOK'
<1> SUFFICES ASSUME JsonTypeOK, StepInv, [JsonNext]_jsonVars
             PROVE  JsonTypeOK'
  OBVIOUS
<1> USE JsonDocumentAssumption DEF JsonTypeOK, Contents, Missing, Damaged, Foreign, Readable
<1>1. CASE Load
  BY <1>1 DEF Load
<1>2. CASE RecoverFromBackup
  BY <1>2 DEF RecoverFromBackup
<1>3. ASSUME NEW removal \in BOOLEAN, Mutate(removal)
      PROVE  JsonTypeOK'
  BY <1>3 DEF Mutate
<1>4. CASE BackUp
  BY <1>4 DEF BackUp, Kept
<1>5. CASE Write
  BY <1>5 DEF Write
<1>6. CASE Scrub
  BY <1>6 DEF Scrub, Scrubbed, StepInv
<1>7. CASE SaveFails
  BY <1>7 DEF SaveFails
<1>8. CASE Crash
  BY <1>8 DEF Crash
<1>9. CASE DamageFile
  BY <1>9 DEF DamageFile
<1>10. CASE ReplaceFile
  BY <1>10 DEF ReplaceFile
<1>11. CASE UNCHANGED jsonVars
  BY <1>11 DEF jsonVars
<1> QED
  BY <1>1, <1>2, <1>3, <1>4, <1>5, <1>6, <1>7, <1>8, <1>9, <1>10, <1>11 DEF JsonNext

(* A step keeps what is known of the versions, of the steps and of a removal. *)
LEMMA DocumentInvStep ==
  JsonTypeOK /\ DocumentInv /\ [JsonNext]_jsonVars => DocumentInv'
<1> SUFFICES ASSUME JsonTypeOK, DocumentInv, [JsonNext]_jsonVars
             PROVE  DocumentInv'
  OBVIOUS
<1> USE JsonDocumentAssumption
    DEF JsonTypeOK, Contents, Missing, Damaged, Foreign, Readable, DocumentInv, StepInv,
        VersionInv, RemovedInv, RemovedStaysRemoved
<1>1. CASE Load
  BY <1>1 DEF Load
<1>2. CASE RecoverFromBackup
  BY <1>2 DEF RecoverFromBackup
<1>3. ASSUME NEW removal \in BOOLEAN, Mutate(removal)
      PROVE  DocumentInv'
  BY <1>3 DEF Mutate
<1>4. CASE BackUp
  BY <1>4 DEF BackUp, Kept
<1>5. CASE Write
  BY <1>5 DEF Write
<1>6. CASE Scrub
  BY <1>6 DEF Scrub, Scrubbed
<1>7. CASE SaveFails
  BY <1>7 DEF SaveFails
<1>8. CASE Crash
  BY <1>8 DEF Crash
<1>9. CASE DamageFile
  BY <1>9 DEF DamageFile
<1>10. CASE ReplaceFile
  BY <1>10 DEF ReplaceFile
<1>11. CASE UNCHANGED jsonVars
  BY <1>11 DEF jsonVars
<1> QED
  BY <1>1, <1>2, <1>3, <1>4, <1>5, <1>6, <1>7, <1>8, <1>9, <1>10, <1>11 DEF JsonNext

(* Each step of the program, the disk or a crash is a step of AtomicDocument or none. *)
LEMMA DocumentRefines ==
  JsonTypeOK /\ DocumentInv /\ [JsonNext]_jsonVars => [Promise!Next]_(Promise!documentVars)
<1> SUFFICES ASSUME JsonTypeOK, DocumentInv, [JsonNext]_jsonVars
             PROVE  Promise!Next \/ UNCHANGED <<OnDisk, Fallback, memory>>
  BY DEF Promise!documentVars
<1> USE JsonDocumentAssumption
    DEF JsonTypeOK, Contents, Missing, Damaged, Foreign, Readable, OnDisk, Fallback
<1>0. StepInv /\ VersionInv
  BY DEF DocumentInv
<1>1. CASE Load
  BY <1>0, <1>1 DEF Load, StepInv, Promise!Next, Promise!Open, Promise!Nothing, Promise!Foreign
<1>2. CASE RecoverFromBackup
  BY <1>0, <1>2 DEF RecoverFromBackup, StepInv, Promise!Next, Promise!Open, Promise!Nothing,
                    Promise!Foreign
<1>3. ASSUME NEW removal \in BOOLEAN, Mutate(removal)
      PROVE  UNCHANGED <<OnDisk, Fallback, memory>>
  BY <1>3 DEF Mutate
<1>4. CASE BackUp
  BY <1>0, <1>4 DEF BackUp, Kept, StepInv, Promise!Next, Promise!Keep, Promise!Nothing
<1>5. CASE Write
  BY <1>0, <1>5 DEF Write, StepInv, VersionInv, Promise!Next, Promise!Save, Promise!Nothing
<1>6. CASE Scrub
  BY <1>0, <1>6 DEF Scrub, Scrubbed, StepInv, Promise!Next, Promise!Keep, Promise!Nothing
<1>7. CASE SaveFails
  BY <1>7 DEF SaveFails
<1>8. CASE Crash
  BY <1>0, <1>8 DEF Crash, StepInv, Promise!Next, Promise!Close, Promise!Forget, Promise!Nothing
<1>9. CASE DamageFile
  BY <1>9 DEF DamageFile, Promise!Next, Promise!Damage
<1>10. CASE ReplaceFile
  BY <1>0, <1>10 DEF ReplaceFile, StepInv, Promise!Next, Promise!Replace, Promise!Nothing,
                     Promise!Foreign
<1>11. CASE UNCHANGED jsonVars
  BY <1>11 DEF jsonVars
<1> QED
  BY <1>1, <1>2, <1>3, <1>4, <1>5, <1>6, <1>7, <1>8, <1>9, <1>10, <1>11 DEF JsonNext

-----------------------------------------------------------------------------------
(* Before the first start there is no file, and a start would read an empty document. *)
LEMMA DocumentInitially == JsonInit => JsonTypeOK /\ DocumentInv /\ Promise!Init
<1> SUFFICES ASSUME JsonInit
             PROVE  JsonTypeOK /\ DocumentInv /\ Promise!Init
  OBVIOUS
<1> USE JsonDocumentAssumption DEF JsonInit, Missing, Damaged, Foreign, Readable
<1>1. JsonTypeOK
  <2>1. removing \in BOOLEAN
    BY Zenon
  <2> QED
    BY <2>1 DEF JsonTypeOK, Contents
<1>2. DocumentInv
  BY DEF DocumentInv, StepInv, VersionInv, RemovedInv, RemovedStaysRemoved
<1>3. Promise!Init
  BY DEF Promise!Init, Promise!Nothing, OnDisk, Fallback
<1> QED
  BY <1>1, <1>2, <1>3

(* In every state the types and the inductive invariant hold. *)
LEMMA DocumentInvariance == JsonSpec => [](JsonTypeOK /\ DocumentInv)
<1>1. DocumentInv => StepInv
  BY DEF DocumentInv
<1> QED
  BY <1>1, DocumentInitially, DocumentTypesStep, DocumentInvStep, PTL DEF JsonSpec

(* The files, the document in memory and the counters keep their types (json_file.rs). *)
THEOREM DocumentTypes == JsonSpec => []JsonTypeOK
BY DocumentInvariance, PTL

(* A settings document survives crashes of a save, damage and other versions: it is     *)
(* what was saved last, after a damage what was kept of it, and lost only if the program *)
(* may end in the middle of recover_from_backup; and an account that was removed stays   *)
(* removed (save_with_backup, load_versioned_with_recovery,                              *)
(* replace_backup_with_primary).                                                        *)
THEOREM DocumentsAreSafe == JsonSpec => DocumentIsSafe
<1>1. DocumentInv => (memory # Missing => memory = 0 \/ memory >= removedAt)
  BY DEF DocumentInv, RemovedInv, RemovedStaysRemoved
<1>2. JsonSpec => Promise!Spec
  BY DocumentInvariance, DocumentInitially, DocumentRefines, PTL DEF JsonSpec, Promise!Spec
<1> QED
  BY <1>1, <1>2, DocumentInvariance, PTL DEF DocumentIsSafe, DocumentIsAtomic

-----------------------------------------------------------------------------------
(* Companion probe.                                                                     *)
(* What the last sign-in learnt stays true because one probe runs at a time (TurnInv):  *)
(* a thread that found nobody signed in files so before the sign-in's own probe may     *)
(* begin (UnsignedInv), and the sign-in has forgotten what was known before it waits    *)
(* for its turn (SignInInv).  A scope is of whoever signed in at its generation         *)
(* (ScopeInv), so that an answer is filed for the account it came from.                 *)
TurnInv ==
  /\ \A c \in Callers : call[c].at \in InProbe => probing
  /\ \A c, d \in Callers : call[c].at \in InProbe /\ call[d].at \in InProbe => c = d

ScopeInv ==
  \A c \in Callers : call[c].at \in Asking =>
    /\ call[c].of \in Users /\ call[c].scope <= login
    /\ call[c].scope = login /\ user # NoUser => call[c].of = user
    /\ call[c].why = "signIn" => call[c].login <= call[c].scope
    /\ call[c].at = "file" => call[c].answer.of = call[c].of

UnsignedInv ==
  \A c \in Callers : call[c].at = "unsigned" =>
    /\ user = NoUser \/ ~settled
    /\ call[c].why = "signIn" /\ call[c].login = login => user = NoUser

SignInInv ==
  \A c \in Callers : call[c].why = "signIn" =>
    /\ call[c].login <= login
    /\ call[c].at \in InProbe \cup {"wait"} /\ call[c].login = login
         => known.of = user \/ user = NoUser \/ known.info = "none" \/ keptLate

CompanionInv == TurnInv /\ ScopeInv /\ UnsignedInv /\ SignInInv /\ CompanionIsTheAccounts

(* A thread's record after each kind of step is one. *)
LEMMA CallKeepsType ==
  /\ Unknown \in States /\ Idle \in Calls
  /\ \A e \in Calls : /\ \A a \in {"idle", "activate", "clear", "wait"} \cup InProbe :
                           [e EXCEPT !.at = a] \in Calls
                      /\ e.answer \in States
<1>1. Unknown \in States
  BY DEF Unknown, States, Plugins
<1>2. Idle \in Calls
  BY <1>1, CompanionAssumption DEF Idle, Calls
<1>3. ASSUME NEW e \in Calls, NEW a \in {"idle", "activate", "clear", "wait"} \cup InProbe
      PROVE  [e EXCEPT !.at = a] \in Calls
  BY <1>3 DEF Calls
<1>4. ASSUME NEW e \in Calls PROVE e.answer \in States
  BY <1>4 DEF Calls
<1> QED
  BY <1>1, <1>2, <1>3, <1>4

(* The types: what is filed is read from the plugin of a user, or was known before. *)
LEMMA CompanionTypesStep ==
  CompanionTypeOK /\ ScopeInv /\ [CompanionNext]_companionVars => CompanionTypeOK'
<1> SUFFICES ASSUME CompanionTypeOK, ScopeInv, [CompanionNext]_companionVars
             PROVE  CompanionTypeOK'
  OBVIOUS
<1> USE CompanionAssumption DEF CompanionTypeOK
<1>1. ASSUME NEW c \in Callers PROVE call[c] \in Calls
  OBVIOUS
<1>2. ASSUME NEW c \in Callers, Probe(c) PROVE CompanionTypeOK'
  <2>1. \A why \in {"read", "refresh"} :
          [call[c] EXCEPT !.at = "wait", !.why = why] \in Calls
    BY <1>1 DEF Calls
  <2>2. PICK why \in {"read", "refresh"} : call' = [call EXCEPT ![c].at = "wait", ![c].why = why]
    BY <1>2 DEF Probe
  <2>3. call' = [call EXCEPT ![c] = [call[c] EXCEPT !.at = "wait", !.why = why]]
    BY <2>2
  <2>4. call' \in [Callers -> Calls]
    BY <2>1, <2>3
  <2>5. UNCHANGED <<user, login, plugin, known, probing, settled, keptLate>>
    BY <1>2 DEF Probe, signedInto, ghosts
  <2> QED
    BY <2>4, <2>5
<1>3. ASSUME NEW c \in Callers, SignOut(c) PROVE CompanionTypeOK'
  <2>1. [call[c] EXCEPT !.at = "activate", !.why = "signOut"] \in Calls
    BY <1>1 DEF Calls
  <2> QED
    BY <1>3, <2>1 DEF SignOut, ghosts
<1>4. ASSUME NEW c \in Callers, NEW u \in Users, SignIn(c, u) PROVE CompanionTypeOK'
  <2>0. login + 1 \in 0 .. MaxLogins
    BY <1>4 DEF SignIn
  <2>1. [call[c] EXCEPT !.at = "activate", !.why = "signIn", !.login = login + 1] \in Calls
    BY <1>1, <1>4, <2>0 DEF Calls
  <2> QED
    BY <1>4, <2>1, <2>0 DEF SignIn
<1>5. ASSUME NEW c \in Callers, NEW a \in {"idle", "activate", "clear", "wait"} \cup InProbe,
             Goes(c, a) \/ Returns(c)
      PROVE  call' \in [Callers -> Calls]
  <2>1. [call[c] EXCEPT !.at = a] \in Calls /\ Idle \in Calls
    BY <1>1, CallKeepsType
  <2> QED
    BY <1>5, <2>1 DEF Goes, Returns
<1>6. ASSUME NEW c \in Callers, Activate(c) \/ Clear(c) \/ Enter(c) PROVE CompanionTypeOK'
  BY <1>5, <1>6, CallKeepsType DEF Activate, Clear, Enter, InProbe, signedInto, ghosts
<1>7. ASSUME NEW c \in Callers, Look(c) PROVE CompanionTypeOK'
  <2>1. user # NoUser =>
          [call[c] EXCEPT !.at = "ask", !.scope = login, !.of = user] \in Calls
    BY <1>1 DEF Calls, InProbe, Asking
  <2> QED
    BY <1>5, <1>7, <2>1 DEF Look, InProbe, signedInto, ghosts
<1>8. ASSUME NEW c \in Callers, Leave(c)
      PROVE  call' \in [Callers -> Calls] /\ probing' \in BOOLEAN /\ settled' \in BOOLEAN
  BY <1>5, <1>8 DEF Leave
<1>9. ASSUME NEW c \in Callers, ScopeGone(c) PROVE CompanionTypeOK'
  BY <1>8, <1>9 DEF ScopeGone, signedInto
<1>10. ASSUME NEW c \in Callers, FileUnsigned(c) PROVE CompanionTypeOK'
  <2>1. Found("none", NoUser) \in States
    BY DEF Found, States, Plugins
  <2> QED
    BY <1>8, <1>10, <2>1 DEF FileUnsigned, signedInto
<1>11. ASSUME NEW c \in Callers, Answer(c) PROVE CompanionTypeOK'
  <2>1. call[c].of \in Users
    BY <1>11 DEF Answer, ScopeInv, Asking
  <2>2. Found(plugin[call[c].of], call[c].of) \in States
    BY <2>1 DEF Found, States
  <2>3. [call[c] EXCEPT !.at = "file", !.answer = Found(plugin[call[c].of], call[c].of)] \in Calls
    BY <1>1, <2>2 DEF Calls, InProbe, Asking
  <2> QED
    BY <1>5, <1>11, <2>3 DEF Answer, InProbe, Asking, signedInto, ghosts
<1>12. ASSUME NEW c \in Callers, FileAnswer(c) PROVE CompanionTypeOK'
  BY <1>1, <1>8, <1>12, CallKeepsType DEF FileAnswer, signedInto
<1>13. ASSUME NEW c \in Callers, ReadPrevious(c) PROVE CompanionTypeOK'
  <2>1. [call[c] EXCEPT !.at = "refile", !.answer = known] \in Calls
    BY <1>1 DEF Calls, InProbe, Asking
  <2> QED
    BY <1>13, <2>1 DEF ReadPrevious, signedInto, ghosts
<1>14. ASSUME NEW c \in Callers, FileFailure(c) PROVE CompanionTypeOK'
  <2>1. [call[c].answer EXCEPT !.checked = TRUE, !.error = TRUE, !.fresh = TRUE] \in States
    BY <1>1, CallKeepsType DEF States
  <2> QED
    BY <1>8, <1>14, <2>1 DEF FileFailure, signedInto
<1>15. CASE SessionEnds
  BY <1>15 DEF SessionEnds, ghosts
<1>16. CASE Lapse
  BY <1>16 DEF Lapse, States, signedInto, ghosts
<1>17. CASE UNCHANGED companionVars
  BY <1>17 DEF companionVars
<1> QED
  BY <1>2, <1>3, <1>4, <1>6, <1>7, <1>9, <1>10, <1>11, <1>12, <1>13, <1>14, <1>15, <1>16,
     <1>17 DEF CompanionNext

(* A thread that leaves its probe keeps the others' turns and scopes. *)
LEMMA CompanionTurnStep ==
  CompanionTypeOK /\ TurnInv /\ [CompanionNext]_companionVars => TurnInv'
<1> SUFFICES ASSUME CompanionTypeOK, TurnInv, [CompanionNext]_companionVars PROVE TurnInv'
  OBVIOUS
<1> USE DEF CompanionTypeOK, Calls, TurnInv, Asking, InProbe, Goes, Returns, Leave, Idle
<1>1. ASSUME NEW c \in Callers,
             Probe(c) \/ SignOut(c) \/ (\E u \in Users : SignIn(c, u))
      PROVE  TurnInv'
  BY <1>1 DEF Probe, SignOut, SignIn
<1>6. ASSUME NEW c \in Callers, Activate(c) \/ Clear(c) PROVE TurnInv'
  BY <1>6 DEF Activate, Clear
<1>2. ASSUME NEW c \in Callers, Enter(c) PROVE TurnInv'
  BY <1>2 DEF Enter
<1>3. ASSUME NEW c \in Callers, Look(c) \/ Answer(c) \/ ReadPrevious(c) PROVE TurnInv'
  BY <1>3 DEF Look, Answer, ReadPrevious
<1>4. ASSUME NEW c \in Callers,
             ScopeGone(c) \/ FileUnsigned(c) \/ FileAnswer(c) \/ FileFailure(c)
      PROVE  TurnInv'
  BY <1>4 DEF ScopeGone, FileUnsigned, FileAnswer, FileFailure
<1>5. CASE SessionEnds \/ Lapse \/ UNCHANGED companionVars
  BY <1>5 DEF SessionEnds, Lapse, companionVars
<1> QED
  BY <1>1, <1>2, <1>3, <1>4, <1>5, <1>6 DEF CompanionNext

(* Only a sign-in moves the generation, past every scope there is. *)
LEMMA CompanionScopeStep ==
  CompanionTypeOK /\ ScopeInv /\ SignInInv /\ [CompanionNext]_companionVars => ScopeInv'
<1> SUFFICES ASSUME CompanionTypeOK, ScopeInv, SignInInv, [CompanionNext]_companionVars
             PROVE  ScopeInv'
  OBVIOUS
<1> USE DEF CompanionTypeOK, Calls, ScopeInv, Asking, Goes, Returns, Leave, Idle
<1>1. ASSUME NEW c \in Callers, Probe(c) \/ SignOut(c) \/ Activate(c) \/ Clear(c) \/ Enter(c)
      PROVE  ScopeInv'
  <2>1. CASE Probe(c) \/ SignOut(c)
    BY <2>1 DEF Probe, SignOut, signedInto
  <2>2. CASE Activate(c) \/ Clear(c) \/ Enter(c)
    BY <2>2 DEF Activate, Clear, Enter, signedInto
  <2> QED
    BY <1>1, <2>1, <2>2
<1>2. ASSUME NEW c \in Callers, NEW u \in Users, SignIn(c, u) PROVE ScopeInv'
  BY <1>2 DEF SignIn
<1>3. ASSUME NEW c \in Callers, Look(c) PROVE ScopeInv'
  BY <1>3 DEF Look, SignInInv, signedInto
<1>4. ASSUME NEW c \in Callers, Answer(c) PROVE ScopeInv'
  BY <1>4 DEF Answer, Found, signedInto
<1>5. ASSUME NEW c \in Callers, ReadPrevious(c) PROVE ScopeInv'
  BY <1>5 DEF ReadPrevious, signedInto
<1>6. ASSUME NEW c \in Callers,
             ScopeGone(c) \/ FileUnsigned(c) \/ FileAnswer(c) \/ FileFailure(c)
      PROVE  ScopeInv'
  BY <1>6 DEF ScopeGone, FileUnsigned, FileAnswer, FileFailure, signedInto
<1>7. CASE SessionEnds \/ Lapse \/ UNCHANGED companionVars
  BY <1>7 DEF SessionEnds, Lapse, companionVars, signedInto
<1> QED
  BY <1>1, <1>2, <1>3, <1>4, <1>5, <1>6, <1>7 DEF CompanionNext

(* What the threads that file leave behind, for the sign-ins that wait and the others. *)
LEMMA CompanionKnownStep ==
  CompanionTypeOK /\ CompanionInv /\ [CompanionNext]_companionVars
    => UnsignedInv' /\ SignInInv' /\ CompanionIsTheAccounts'
<1> SUFFICES ASSUME CompanionTypeOK, CompanionInv, [CompanionNext]_companionVars
             PROVE  UnsignedInv' /\ SignInInv' /\ CompanionIsTheAccounts'
  OBVIOUS
<1> USE CompanionAssumption
    DEF CompanionTypeOK, Calls, CompanionInv, TurnInv, ScopeInv, UnsignedInv, SignInInv,
        CompanionIsTheAccounts, Asking, InProbe, Goes, Returns, Leave, Idle, signedInto, ghosts
<1>1. ASSUME NEW c \in Callers, Probe(c) \/ SignOut(c) \/ Activate(c) \/ Enter(c)
      PROVE  UnsignedInv' /\ SignInInv' /\ CompanionIsTheAccounts'
  BY <1>1 DEF Probe, SignOut, Activate, Enter
<1>2. ASSUME NEW c \in Callers, NEW u \in Users, SignIn(c, u)
      PROVE  UnsignedInv' /\ SignInInv' /\ CompanionIsTheAccounts'
  BY <1>2 DEF SignIn
<1>3. ASSUME NEW c \in Callers, Clear(c)
      PROVE  UnsignedInv' /\ SignInInv' /\ CompanionIsTheAccounts'
  BY <1>3 DEF Clear, Unknown
<1>4. ASSUME NEW c \in Callers, Look(c) \/ Answer(c) \/ ReadPrevious(c)
      PROVE  UnsignedInv' /\ SignInInv' /\ CompanionIsTheAccounts'
  BY <1>4 DEF Look, Answer, ReadPrevious
<1>5. ASSUME NEW c \in Callers, ScopeGone(c)
      PROVE  UnsignedInv' /\ SignInInv' /\ CompanionIsTheAccounts'
  BY <1>5 DEF ScopeGone
<1>6. ASSUME NEW c \in Callers, FileUnsigned(c)
      PROVE  UnsignedInv' /\ SignInInv' /\ CompanionIsTheAccounts'
  BY <1>6 DEF FileUnsigned, Found
<1>7. ASSUME NEW c \in Callers, FileAnswer(c)
      PROVE  UnsignedInv' /\ SignInInv' /\ CompanionIsTheAccounts'
  BY <1>7 DEF FileAnswer, StillSignedIn
<1>8. ASSUME NEW c \in Callers, FileFailure(c)
      PROVE  UnsignedInv' /\ SignInInv' /\ CompanionIsTheAccounts'
  <2>1. CASE StillSignedIn(c)
    <3>0. call[c].answer \in States
      BY CallKeepsType
    <3>1. known'.of = call[c].answer.of /\ known'.info = call[c].answer.info /\ known'.error
      <4>1. known' = [call[c].answer EXCEPT !.checked = TRUE, !.error = TRUE, !.fresh = TRUE]
        BY <1>8, <2>1 DEF FileFailure
      <4> QED
        BY <3>0, <4>1 DEF States
    <3>2. ~keptLate' => known'.of = known.of /\ known'.info = known.info
      BY <1>8, <2>1, <3>1 DEF FileFailure, SameInfo
    <3> QED
      BY <1>8, <2>1, <3>1, <3>2 DEF FileFailure, StillSignedIn
  <2>2. CASE ~StillSignedIn(c)
    BY <1>8, <2>2 DEF FileFailure, StillSignedIn
  <2> QED
    BY <2>1, <2>2
<1>9. CASE SessionEnds \/ Lapse \/ UNCHANGED companionVars
  BY <1>9 DEF SessionEnds, Lapse, companionVars, States
<1> QED
  BY <1>1, <1>2, <1>3, <1>4, <1>5, <1>6, <1>7, <1>8, <1>9 DEF CompanionNext

LEMMA CompanionInitially == CompanionInit => CompanionTypeOK /\ CompanionInv
<1>1. CompanionInit => CompanionTypeOK
  <2> SUFFICES ASSUME CompanionInit PROVE CompanionTypeOK
    OBVIOUS
  <2>1. call \in [Callers -> Calls] /\ known \in States
    BY CallKeepsType DEF CompanionInit
  <2>2. login \in 0 .. MaxLogins /\ plugin \in [Users -> Plugins]
    BY CompanionAssumption DEF CompanionInit
  <2> QED
    BY <2>1, <2>2 DEF CompanionInit, CompanionTypeOK
<1>2. CompanionInit => CompanionInv
  BY CompanionAssumption
     DEF CompanionInit, CompanionInv, TurnInv, ScopeInv, UnsignedInv,
         SignInInv, CompanionIsTheAccounts, Idle, Unknown, Asking, InProbe
<1> QED
  BY <1>1, <1>2

LEMMA CompanionInvariance == CompanionSpec => [](CompanionTypeOK /\ CompanionInv)
<1>1. CompanionTypeOK /\ CompanionInv /\ [CompanionNext]_companionVars
        => (CompanionTypeOK /\ CompanionInv)'
  BY CompanionTypesStep, CompanionTurnStep, CompanionScopeStep, CompanionKnownStep
     DEF CompanionInv
<1> QED
  BY CompanionInitially, <1>1, PTL DEF CompanionSpec

(* The probe's state, the threads' calls and scopes keep their types (companion/mod.rs). *)
THEOREM CompanionTypes == CompanionSpec => []CompanionTypeOK
  BY CompanionInvariance, PTL

(* After a sign-in's probe, what is known is the account's own, for any number of threads, *)
(* accounts and sign-ins (CompanionSession::probe, clear, replace_scoped).                  *)
THEOREM CompanionIsTheirs == CompanionSpec => []CompanionIsTheAccounts
<1>1. CompanionInv => CompanionIsTheAccounts
  BY DEF CompanionInv
<1> QED
  BY <1>1, CompanionInvariance, PTL

-----------------------------------------------------------------------------------
(* Deletion of an account's data.  *)
(* A deletion is final, is not forgotten and spares the other accounts, for any number *)
(* of accounts, failures, starts and saves (AccountData).                              *)
(*                                                                                   *)
(* A save finds its scope still that of the session, and the settings shown those of   *)
(* the session, whenever it has a scope at all (AccountScopes); a deletion of the       *)
(* signed-in account has frozen the session, so that nothing commits for it meanwhile,  *)
(* and clears the session before it ends (AccountDeletions, AccountShown): no signed-in *)
(* account counts as erased, and what the steps so far removed stays removed             *)
(* (AccountErased).                                                                    *)

AccountScopes ==
  /\ scope # None => scope = acct /\ active = acct /\ auth.op = "none" /\ resuming = {}
  /\ refresh.current => refresh.acct = acct
  /\ refresh.stage # "none" => refresh.acct # None

AccountShown ==
  /\ auth.op = "none" => auth = NoAuthWork /\ active = acct
  /\ auth.op = "logout" => acct = None
  /\ auth.op = "delete" => IF auth.step = 8 THEN acct = None ELSE active = acct
  /\ ~misfiled

AccountDeletions ==
  /\ resuming \subseteq DOMAIN journal
  /\ auth.op = "delete" =>
       /\ auth.acct \in DOMAIN journal /\ auth.step # 0
       /\ acct = auth.acct => deleting /\ ~refresh.current /\ auth.step <= 7

AccountErased ==
  /\ acct \notin erased
  /\ auth.op = "delete" /\ auth.acct \notin putBack =>
       /\ auth.step >= 2 => auth.acct \notin doc["accounts"]
       /\ auth.step >= 3 => auth.acct \notin backup["accounts"]
       /\ auth.step >= 4 => auth.acct \notin doc["collections"]
       /\ auth.step >= 5 => auth.acct \notin backup["collections"]
  /\ NoSettingsAfterDeletion

AccountInv ==
  /\ AccountTypeOK /\ AccountScopes /\ AccountShown /\ AccountDeletions /\ AccountErased
  /\ DeletionIsNotForgotten

\* Which step of a deletion is which.
LEMMA PlanSteps ==
  /\ Len(Plan) = 9
  /\ \A s \in 0 .. Len(Plan) : s # 0 =>
       /\ Plan[s].do = "doc" <=> s \in {1, 3}
       /\ Plan[s].do = "scrub" <=> s \in {2, 4}
       /\ s \in {1, 2} => Plan[s].at = "accounts"
       /\ s \in {3, 4} => Plan[s].at = "collections"
       /\ Plan[s].do = "rows" <=> s = 5
       /\ Plan[s].do = "posters" <=> s = 6
       /\ Plan[s].do = "session" <=> s = 7
       /\ Plan[s].do = "active" <=> s = 8
       /\ Plan[s].do = "finish" <=> s = 9
<1>1. Len(Plan) = 9
  BY DEF Plan
<1> SUFFICES ASSUME NEW s \in 1 .. 9
             PROVE  /\ Plan[s].do = "doc" <=> s \in {1, 3}
                    /\ Plan[s].do = "scrub" <=> s \in {2, 4}
                    /\ s \in {1, 2} => Plan[s].at = "accounts"
                    /\ s \in {3, 4} => Plan[s].at = "collections"
                    /\ Plan[s].do = "rows" <=> s = 5
                    /\ Plan[s].do = "posters" <=> s = 6
                    /\ Plan[s].do = "session" <=> s = 7
                    /\ Plan[s].do = "active" <=> s = 8
                    /\ Plan[s].do = "finish" <=> s = 9
  BY <1>1
<1>2. s \in {1, 2, 3, 4, 5, 6, 7, 8, 9}
  OBVIOUS
<1> QED
  BY <1>2 DEF Plan

\* Where a deletion is.
LEMMA DeletionAt ==
  ASSUME AccountDataAssumption, AccountTypeOK, AccountDeletions, auth.op = "delete"
  PROVE  /\ auth.step \in 1 .. 9 /\ auth.acct \in Accounts
         /\ At("doc") <=> auth.step \in {1, 3}
         /\ At("scrub") <=> auth.step \in {2, 4}
         /\ auth.step \in {1, 2} => Place = "accounts"
         /\ auth.step \in {3, 4} => Place = "collections"
         /\ At("rows") <=> auth.step = 5
         /\ At("posters") <=> auth.step = 6
         /\ At("session") <=> auth.step = 7
         /\ At("active") <=> auth.step = 8
         /\ At("finish") <=> auth.step = 9
<1>1. auth.step \in 0 .. Len(Plan) /\ auth.step # 0 /\ auth.acct \in Accounts
  BY DEF AccountTypeOK, AccountDeletions
<1> QED
  BY <1>1, PlanSteps DEF At, Place

\* What the session's requests, the deletions and the saves leave alone.
SessionStep ==
  \/ \E a \in Accounts : Login(a) \/ ResumeDeletion(a)
  \/ ActivateAccountPreferences \/ Logout \/ ClearAccountPreferences
  \/ DeleteLocalAccountData \/ DeletionFails \/ Start

SaveStep ==
  \/ TakeScope \/ (\E d \in Docs : SaveSettings(d)) \/ PatchAppearance
  \/ CommitResultProfile \/ EditLeavesHome \/ ForgetHomeCollection
  \/ RefreshStarts \/ RefreshFails \/ ProfileIsCurrent \/ CommitProfile

LEMMA NextSteps ==
  [AccountNext]_accountVars => SessionStep \/ SaveStep \/ DeletionStep \/ UNCHANGED accountVars
BY DEF AccountNext, SessionStep, SaveStep

LEMMA SavesKeep ==
  SaveStep => UNCHANGED <<acct, deleting, active, journal, auth, resuming, stepFaults, starts,
                          erased, failedHere>>
BY DEF SaveStep, TakeScope, SaveSettings, PatchAppearance, CommitResultProfile, EditLeavesHome,
       ForgetHomeCollection, RefreshStarts, RefreshFails, ProfileIsCurrent, CommitProfile,
       files, history

LEMMA SessionKeeps ==
  SessionStep => UNCHANGED <<doc, backup, rows, scopes, misfiled>>
BY DEF SessionStep, Login, ResumeDeletion, ActivateAccountPreferences, Logout,
       ClearAccountPreferences, DeleteLocalAccountData, DeletionFails, Start, files, history

LEMMA DeletionKeeps ==
  DeletionStep => auth.op = "delete" /\ UNCHANGED <<stepFaults, starts, scopes, failedHere, misfiled, putBack>>
BY DEF DeletionStep, RemoveFromDocument, ScrubBackup, RemoveRows, RemovePosters, ClearSession,
       ShowNobodysSettings, FinishDeletion, At, files, history

\* A document saved: what it held becomes its backup.
LEMMA OneSaved ==
  ASSUME AccountTypeOK, NEW d \in Docs, NEW held \in SUBSET Accounts, Saved(d, held)
  PROVE  /\ doc' \in [Docs -> SUBSET Accounts] /\ backup' \in [Docs -> SUBSET Accounts]
         /\ \A e \in Docs : /\ doc'[e] = IF e = d THEN held ELSE doc[e]
                            /\ backup'[e] = IF e = d THEN doc[d] ELSE backup[e]
BY DEF Saved, AccountTypeOK

\* A save adds an account only for a scope, for the settings shown, or late.
LEMMA SavesHold ==
  ASSUME AccountDataAssumption, AccountTypeOK, AccountScopes, SaveStep
  PROVE  /\ doc' \in [Docs -> SUBSET Accounts] /\ backup' \in [Docs -> SUBSET Accounts]
         /\ putBack' \in SUBSET Accounts /\ putBack \subseteq putBack'
         /\ \A d \in Docs, a \in Accounts :
              /\ a \in doc'[d] \ doc[d] =>
                   \/ scope # None /\ a \in {scope, active}
                   \/ refresh.stage = "forgetting" /\ a = refresh.acct
                      /\ (refresh.current \/ a \in putBack')
              /\ a \in backup'[d] => a \in backup[d] \cup doc[d]
<1>0. /\ scope \in Accounts \cup {None} /\ active \in Accounts \cup {None}
      /\ refresh.acct \in Accounts \cup {None} /\ doc \in [Docs -> SUBSET Accounts]
      /\ backup \in [Docs -> SUBSET Accounts] /\ putBack \in SUBSET Accounts
      /\ Docs = {"accounts", "collections"}
  BY DEF AccountTypeOK, Docs
<1>1. CASE UNCHANGED <<doc, backup, putBack>>
  BY <1>0, <1>1
<1>2. ASSUME NEW d \in Docs, SaveSettings(d)
      PROVE  scope # None /\ Saved(d, doc[d] \cup {scope}) /\ putBack' = putBack
  BY <1>2 DEF SaveSettings, history
<1>3. ASSUME PatchAppearance
      PROVE  scope # None /\ active # None /\ Saved("accounts", doc["accounts"] \cup {active}) /\ putBack' = putBack
  BY <1>3 DEF PatchAppearance
<1>4. ASSUME CommitResultProfile \/ EditLeavesHome
      PROVE  scope # None /\ Saved("collections", doc["collections"] \cup {scope}) /\ putBack' = putBack
  BY <1>4 DEF CommitResultProfile, EditLeavesHome, history
<1>5. ASSUME ForgetHomeCollection
      PROVE  /\ refresh.stage = "forgetting" /\ refresh.acct \in Accounts
             /\ Saved("accounts", doc["accounts"] \cup {refresh.acct})
             /\ putBack' = IF refresh.current THEN putBack ELSE putBack \cup {refresh.acct}
  BY <1>0, <1>5 DEF ForgetHomeCollection, AccountScopes
<1>6. ASSUME TakeScope \/ RefreshStarts \/ RefreshFails \/ ProfileIsCurrent \/ CommitProfile
      PROVE  UNCHANGED <<doc, backup, putBack>>
  BY <1>6 DEF TakeScope, RefreshStarts, RefreshFails, ProfileIsCurrent, CommitProfile, files, history
<1>7. ASSUME NEW d \in Docs, NEW b \in Accounts, Saved(d, doc[d] \cup {b})
      PROVE  /\ doc' \in [Docs -> SUBSET Accounts] /\ backup' \in [Docs -> SUBSET Accounts]
             /\ \A e \in Docs, a \in Accounts :
                  /\ a \in doc'[e] \ doc[e] => a = b
                  /\ a \in backup'[e] => a \in backup[e] \cup doc[e]
  <2>1. doc[d] \cup {b} \in SUBSET Accounts
    BY <1>0
  <2> QED
    BY <1>7, <2>1, OneSaved
<1>8. CASE \E d \in Docs : SaveSettings(d)
  BY <1>0, <1>2, <1>7, <1>8
<1>9. CASE PatchAppearance
  BY <1>0, <1>3, <1>7, <1>9
<1>10. CASE CommitResultProfile \/ EditLeavesHome
  BY <1>0, <1>4, <1>7, <1>10
<1>11. CASE ForgetHomeCollection
  BY <1>0, <1>5, <1>7, <1>11
<1> QED
  BY <1>1, <1>6, <1>8, <1>9, <1>10, <1>11 DEF SaveStep

\* The request that runs, and the refresh, keep their types.
AuthType == [op : {"none", "login", "logout", "delete"}, acct : Accounts \cup {None},
             step : 0 .. Len(Plan)]
RefreshType == [acct : Accounts \cup {None}, stage : {"none", "fetching", "checked", "forgetting"},
                current : BOOLEAN]

\* A step of a deletion done, or the deletion done.
LEMMA DeletionAdvances ==
  ASSUME AccountDataAssumption, AccountTypeOK, AccountDeletions, DeletionStep
  PROVE  \/ /\ auth' \in AuthType /\ auth'.op = "delete" /\ auth'.acct = auth.acct
            /\ ~FinishDeletion /\ auth.step # 9
            /\ IF ClearSession /\ ~OwnsSession(auth.acct) THEN auth'.step = 9
                                                         ELSE auth'.step = auth.step + 1
         \/ FinishDeletion /\ auth' = NoAuthWork /\ auth.step = 9
<1>1. /\ auth.op = "delete" /\ auth \in AuthType /\ Len(Plan) = 9
  BY DeletionKeeps, PlanSteps DEF AccountTypeOK, AuthType
<1>2. /\ auth.step \in 1 .. 9
      /\ At("doc") \/ At("scrub") \/ At("rows") \/ At("posters") \/ At("session") \/ At("active") => auth.step # 9
      /\ At("session") <=> auth.step = 7
      /\ At("finish") <=> auth.step = 9
  BY <1>1, DeletionAt
<1>3. ASSUME NEW n \in {1, 2}, Advance(n), auth.step + n <= 9
      PROVE  auth' \in AuthType /\ auth'.op = "delete" /\ auth'.acct = auth.acct /\ auth'.step = auth.step + n
  BY <1>1, <1>2, <1>3 DEF Advance, AuthType
<1>4. CASE RemoveFromDocument \/ ScrubBackup \/ RemoveRows \/ RemovePosters \/ ShowNobodysSettings
  <2>1. Advance(1) /\ auth.step # 9
    BY <1>2, <1>4 DEF RemoveFromDocument, ScrubBackup, RemoveRows, RemovePosters, ShowNobodysSettings
  <2>2. ~ClearSession /\ ~FinishDeletion
    BY <1>4 DEF RemoveFromDocument, ScrubBackup, RemoveRows, RemovePosters, ShowNobodysSettings,
                ClearSession, FinishDeletion, At
  <2> QED
    BY <1>2, <1>3, <2>1, <2>2
<1>5. CASE ClearSession
  <2>1. auth.step = 7 /\ ~FinishDeletion
    BY <1>2, <1>5 DEF ClearSession, FinishDeletion
  <2>2. IF OwnsSession(auth.acct) THEN Advance(1) ELSE Advance(2)
    BY <1>5 DEF ClearSession
  <2> QED
    BY <1>3, <1>5, <2>1, <2>2
<1>6. CASE FinishDeletion
  BY <1>2, <1>6 DEF FinishDeletion
<1> QED
  BY <1>4, <1>5, <1>6 DEF DeletionStep

LEMMA AuthTyped ==
  ASSUME AccountDataAssumption, AccountTypeOK, AccountDeletions, [AccountNext]_accountVars
  PROVE  auth' \in AuthType
<1>1. /\ acct \in Accounts \cup {None} /\ auth \in AuthType /\ resuming \subseteq Accounts
      /\ \A o \in {"none", "login", "logout", "delete"}, a \in Accounts \cup {None}, s \in {0, 1} :
           [op |-> o, acct |-> a, step |-> s] \in AuthType
  BY PlanSteps DEF AccountTypeOK, AuthType
<1>2. NoAuthWork \in AuthType
  BY <1>1 DEF NoAuthWork
<1> HIDE DEF AuthType
<1>3. CASE SessionStep
  BY <1>1, <1>2, <1>3 DEF SessionStep, Login, ResumeDeletion, ActivateAccountPreferences, Logout,
       ClearAccountPreferences, DeleteLocalAccountData, DeletionFails, Start
<1> QED
  BY <1>1, <1>2, <1>3, NextSteps, SavesKeep, DeletionAdvances DEF accountVars

LEMMA RefreshTyped ==
  ASSUME AccountTypeOK, [AccountNext]_accountVars
  PROVE  refresh' \in RefreshType
<1>1. /\ refresh \in RefreshType /\ NoRefresh \in RefreshType
      /\ acct \in Accounts \cup {None} /\ scope \in Accounts \cup {None}
  BY DEF AccountTypeOK, RefreshType, NoRefresh
<1>2. /\ [refresh EXCEPT !.current = FALSE] \in RefreshType
      /\ [refresh EXCEPT !.stage = "checked"] \in RefreshType
      /\ [acct |-> scope, stage |-> "forgetting", current |-> TRUE] \in RefreshType
      /\ [acct |-> acct, stage |-> "fetching", current |-> TRUE] \in RefreshType
  BY <1>1 DEF RefreshType
<1> HIDE DEF RefreshType
<1>3. CASE SessionStep
  BY <1>1, <1>2, <1>3 DEF SessionStep, Login, ResumeDeletion, ActivateAccountPreferences, Logout,
       ClearAccountPreferences, DeleteLocalAccountData, DeletionFails, Start, EndScopes
<1>4. CASE SaveStep
  BY <1>1, <1>2, <1>4 DEF SaveStep, TakeScope, SaveSettings, PatchAppearance, CommitResultProfile,
       EditLeavesHome, ForgetHomeCollection, RefreshStarts, RefreshFails, ProfileIsCurrent, CommitProfile
<1>5. CASE DeletionStep
  BY <1>1, <1>2, <1>5 DEF DeletionStep, RemoveFromDocument, ScrubBackup, RemoveRows, RemovePosters,
       ClearSession, ShowNobodysSettings, FinishDeletion, EndScopes
<1> QED
  BY <1>1, <1>3, <1>4, <1>5, NextSteps DEF accountVars

\* The files and the journal keep their types.
LEMMA FilesTyped ==
  ASSUME AccountDataAssumption, AccountTypeOK, AccountScopes, AccountDeletions, [AccountNext]_accountVars
  PROVE  /\ doc' \in [Docs -> SUBSET Accounts] /\ backup' \in [Docs -> SUBSET Accounts]
         /\ rows' \subseteq Accounts /\ posters' \subseteq Accounts
<1>1. /\ doc \in [Docs -> SUBSET Accounts] /\ backup \in [Docs -> SUBSET Accounts]
      /\ rows \subseteq Accounts /\ posters \subseteq Accounts
      /\ scope \in Accounts \cup {None} /\ refresh.acct \in Accounts \cup {None}
      /\ Docs = {"accounts", "collections"}
  BY DEF AccountTypeOK, Docs
<1>2. CASE SessionStep
  <2>1. UNCHANGED <<doc, backup, rows>>
    BY <1>2, SessionKeeps
  <2>2. posters' \subseteq posters
    BY <1>2 DEF SessionStep, Login, ResumeDeletion, ActivateAccountPreferences, Logout,
         ClearAccountPreferences, DeleteLocalAccountData, DeletionFails, Start, files
  <2> QED
    BY <1>1, <2>1, <2>2
<1>3. CASE SaveStep
  <2>1. rows' \subseteq Accounts /\ posters' \subseteq Accounts
    BY <1>1, <1>3 DEF SaveStep, TakeScope, SaveSettings, PatchAppearance, CommitResultProfile,
       EditLeavesHome, ForgetHomeCollection, RefreshStarts, RefreshFails, ProfileIsCurrent,
       CommitProfile, files, AccountScopes
  <2> QED
    BY <1>3, <2>1, SavesHold
<1>4. CASE DeletionStep
  <2>1. rows' \subseteq Accounts /\ posters' \subseteq Accounts
    BY <1>1, <1>4 DEF DeletionStep, RemoveFromDocument, ScrubBackup, RemoveRows, RemovePosters,
       ClearSession, ShowNobodysSettings, FinishDeletion, files
  <2>2. auth.op = "delete" /\ (At("doc") \/ At("scrub") => Place \in Docs)
    BY <1>1, <1>4, DeletionKeeps, DeletionAt
  <2>3. CASE RemoveFromDocument
    <3>1. Place \in Docs /\ doc[Place] \ {auth.acct} \in SUBSET Accounts /\ Saved(Place, doc[Place] \ {auth.acct})
      BY <1>1, <2>2, <2>3 DEF RemoveFromDocument
    <3> QED
      BY <2>1, <3>1, OneSaved
  <2>4. CASE ScrubBackup
    BY <1>1, <2>1, <2>2, <2>4 DEF ScrubBackup, ReplaceBackupWithPrimary
  <2>5. CASE ~RemoveFromDocument /\ ~ScrubBackup
    BY <1>1, <1>4, <2>1, <2>5 DEF DeletionStep, RemoveRows, RemovePosters, ClearSession,
       ShowNobodysSettings, FinishDeletion, files
  <2> QED
    BY <2>3, <2>4, <2>5
<1> QED
  BY <1>1, <1>2, <1>3, <1>4, NextSteps DEF accountVars

LEMMA JournalTyped ==
  ASSUME AccountDataAssumption, AccountTypeOK, AccountDeletions, [AccountNext]_accountVars
  PROVE  DOMAIN journal' \subseteq Accounts /\ \A a \in DOMAIN journal' : journal'[a] \in BOOLEAN
<1>1. /\ DOMAIN journal \subseteq Accounts /\ \A a \in DOMAIN journal : journal[a] \in BOOLEAN
      /\ acct \in Accounts \cup {None}
  BY DEF AccountTypeOK
<1>2. CASE DeleteLocalAccountData
  <2>1. acct \in Accounts /\ NamesPosters(acct) \in BOOLEAN
    BY <1>1, <1>2 DEF DeleteLocalAccountData, SignedIn, NamesPosters
  <2> QED
    BY <1>1, <1>2, <2>1 DEF DeleteLocalAccountData
<1>3. CASE FinishDeletion
  BY <1>1, <1>3 DEF FinishDeletion
<1>4. ~DeleteLocalAccountData /\ ~FinishDeletion => journal' = journal
  BY NextSteps, SavesKeep DEF SessionStep, Login, ResumeDeletion, ActivateAccountPreferences, Logout,
         ClearAccountPreferences, DeletionFails, Start, DeletionStep, RemoveFromDocument,
         ScrubBackup, RemoveRows, RemovePosters, ClearSession, ShowNobodysSettings, accountVars
<1> QED
  BY <1>1, <1>2, <1>3, <1>4

LEMMA AccountTypeStep ==
  ASSUME AccountDataAssumption, AccountTypeOK, AccountScopes, AccountDeletions, [AccountNext]_accountVars
  PROVE  AccountTypeOK'
<1>1. /\ acct \in Accounts \cup {None} /\ deleting \in BOOLEAN
      /\ active \in Accounts \cup {None} /\ scope \in Accounts \cup {None}
      /\ auth.acct \in Accounts \cup {None}
      /\ DOMAIN journal \subseteq Accounts /\ resuming \subseteq Accounts
      /\ stepFaults \in 0 .. MaxStepFaults /\ starts \in 0 .. MaxStarts /\ scopes \in 0 .. MaxScopes
      /\ erased \subseteq Accounts /\ failedHere \subseteq Accounts /\ putBack \subseteq Accounts
      /\ misfiled \in BOOLEAN
  BY DEF AccountTypeOK
<1>2. MaxStepFaults \in Nat /\ MaxStarts \in Nat /\ MaxScopes \in Nat
  BY DEF AccountDataAssumption
<1>3. auth.op = "delete" => auth.acct \in Accounts
  BY DeletionAt
<1>4. /\ acct' \in Accounts \cup {None} /\ deleting' \in BOOLEAN
      /\ active' \in Accounts \cup {None} /\ scope' \in Accounts \cup {None}
      /\ resuming' \subseteq Accounts
      /\ stepFaults' \in 0 .. MaxStepFaults /\ starts' \in 0 .. MaxStarts /\ scopes' \in 0 .. MaxScopes
      /\ erased' \subseteq Accounts /\ failedHere' \subseteq Accounts /\ putBack' \subseteq Accounts
      /\ misfiled' \in BOOLEAN
  <2>1. CASE SessionStep
    <3>1. UNCHANGED <<scopes, misfiled>>
      BY <2>1, SessionKeeps
    <3>2. /\ acct' \in Accounts \cup {None} /\ deleting' \in BOOLEAN
          /\ active' \in Accounts \cup {None} /\ scope' \in Accounts \cup {None}
      BY <1>1, <2>1 DEF SessionStep, Login, ResumeDeletion, ActivateAccountPreferences, Logout,
         ClearAccountPreferences, DeleteLocalAccountData, DeletionFails, Start, EndScopes
    <3>3. stepFaults' \in 0 .. MaxStepFaults /\ starts' \in 0 .. MaxStarts
      BY <1>1, <1>2, <2>1 DEF SessionStep, Login, ResumeDeletion, ActivateAccountPreferences, Logout,
         ClearAccountPreferences, DeleteLocalAccountData, DeletionFails, Start, history
    <3>4. /\ resuming' \subseteq Accounts /\ erased' \subseteq Accounts
          /\ failedHere' \subseteq Accounts /\ putBack' \subseteq Accounts
      BY <1>1, <1>3, <2>1 DEF SessionStep, Login, ResumeDeletion, ActivateAccountPreferences, Logout,
         ClearAccountPreferences, DeleteLocalAccountData, DeletionFails, Start, Pending, history
    <3> QED
      BY <1>1, <3>1, <3>2, <3>3, <3>4
  <2>2. CASE SaveStep
    <3>0. TakeScope => scope' \in Accounts \cup {None} /\ scopes' \in 0 .. MaxScopes
      BY <1>1, <1>2 DEF TakeScope
    <3>1. scope' \in Accounts \cup {None} /\ scopes' \in 0 .. MaxScopes
      BY <1>1, <2>2, <3>0 DEF SaveStep, SaveSettings, PatchAppearance, CommitResultProfile,
       EditLeavesHome, ForgetHomeCollection, RefreshStarts, RefreshFails, ProfileIsCurrent,
       CommitProfile, history
    <3>2. PatchAppearance => misfiled' \in BOOLEAN
      BY Zenon DEF PatchAppearance
    <3>3. ~PatchAppearance => misfiled' = misfiled
      BY <2>2 DEF SaveStep, TakeScope, SaveSettings, CommitResultProfile, EditLeavesHome,
       ForgetHomeCollection, RefreshStarts, RefreshFails, ProfileIsCurrent, CommitProfile, history
    <3> QED
      BY <1>1, <2>2, <3>1, <3>2, <3>3, SavesKeep, SavesHold
  <2>3. CASE DeletionStep
    <3>1. /\ acct' \in Accounts \cup {None} /\ deleting' \in BOOLEAN
          /\ active' \in Accounts \cup {None} /\ scope' \in Accounts \cup {None}
          /\ resuming' \subseteq Accounts /\ erased' \subseteq Accounts
      BY <1>1, <1>3, <2>3, DeletionKeeps DEF DeletionStep, RemoveFromDocument, ScrubBackup, RemoveRows,
         RemovePosters, ClearSession, ShowNobodysSettings, FinishDeletion, EndScopes, history
    <3> QED
      BY <1>1, <2>3, <3>1, DeletionKeeps
  <2> QED
    BY <1>1, <2>1, <2>2, <2>3, NextSteps DEF accountVars
<1> QED
  BY <1>4, AuthTyped, RefreshTyped, FilesTyped, JournalTyped DEF AccountTypeOK, AuthType, RefreshType

\* The session, its scope and the settings shown.
LEMMA AccountScopesStep ==
  ASSUME AccountDataAssumption, AccountTypeOK, AccountScopes, AccountShown, AccountDeletions,
         [AccountNext]_accountVars
  PROVE  AccountScopes'
<1>1. refresh \in RefreshType /\ acct \in Accounts \cup {None} /\ scope \in Accounts \cup {None}
  BY DEF AccountTypeOK, RefreshType
<1>2. /\ EndScopes => refresh'.current = FALSE /\ refresh'.acct = refresh.acct /\ refresh'.stage = refresh.stage
      /\ NoRefresh.current = FALSE /\ NoRefresh.stage = "none"
  BY <1>1 DEF EndScopes, RefreshType, NoRefresh
<1>3. CASE SessionStep
  <2>1. scope' = None \/ UNCHANGED <<acct, active, auth, resuming, scope>>
    BY <1>3 DEF SessionStep, Login, ResumeDeletion, ActivateAccountPreferences, Logout, EndScopes,
         ClearAccountPreferences, DeleteLocalAccountData, DeletionFails, Start, AccountScopes
  <2>2. refresh' = NoRefresh \/ EndScopes \/ UNCHANGED <<acct, refresh>>
    BY <1>3 DEF SessionStep, Login, ResumeDeletion, ActivateAccountPreferences, Logout,
         ClearAccountPreferences, DeleteLocalAccountData, DeletionFails, Start
  <2> QED
    BY <1>2, <2>1, <2>2 DEF AccountScopes
<1>4. CASE SaveStep
  <2>1. UNCHANGED <<acct, active, auth, resuming>>
    BY <1>4, SavesKeep
  <2>2. scope' \in {None, scope} \/ TakeScope
    BY <1>4 DEF SaveStep, SaveSettings, PatchAppearance, CommitResultProfile,
       EditLeavesHome, ForgetHomeCollection, RefreshStarts, RefreshFails, ProfileIsCurrent, CommitProfile
  <2>3. TakeScope => scope' = acct /\ auth.op = "none" /\ resuming = {} /\ active = acct
    <3>1. NoAuthWork.op = "none"
      BY DEF NoAuthWork
    <3> QED
      BY <3>1 DEF TakeScope, BetweenRequests, Running, AccountShown
  <2>4. /\ refresh'.current => refresh'.acct = acct
        /\ refresh'.stage # "none" => refresh'.acct # None
    <3>1. CASE refresh' = NoRefresh \/ UNCHANGED refresh
      BY <1>2, <3>1 DEF AccountScopes
    <3>2. CASE EditLeavesHome
      BY <1>1, <3>2 DEF EditLeavesHome, AccountScopes
    <3>3. CASE RefreshStarts
      BY <1>1, <3>3 DEF RefreshStarts, AccountDataAssumption, AccountTypeOK, Docs
    <3>4. CASE ProfileIsCurrent
      BY <1>1, <3>1, <3>4 DEF ProfileIsCurrent, RefreshType, AccountScopes
    <3> QED
      BY <1>4, <3>1, <3>2, <3>3, <3>4 DEF SaveStep, TakeScope, SaveSettings, PatchAppearance,
         CommitResultProfile, ForgetHomeCollection, RefreshFails, CommitProfile
  <2> QED
    BY <2>1, <2>2, <2>3, <2>4 DEF AccountScopes
<1>5. CASE DeletionStep
  <2>1. scope = None /\ scope' = None
    BY <1>5, DeletionKeeps DEF DeletionStep, RemoveFromDocument, ScrubBackup, RemoveRows,
       RemovePosters, ClearSession, ShowNobodysSettings, FinishDeletion, EndScopes, AccountScopes
  <2>2. EndScopes \/ UNCHANGED <<acct, refresh>>
    BY <1>5 DEF DeletionStep, RemoveFromDocument, ScrubBackup, RemoveRows,
       RemovePosters, ClearSession, ShowNobodysSettings, FinishDeletion
  <2> QED
    BY <1>2, <2>1, <2>2 DEF AccountScopes
<1> QED
  BY <1>3, <1>4, <1>5, NextSteps DEF accountVars, AccountScopes

LEMMA AccountShownStep ==
  ASSUME AccountDataAssumption, AccountTypeOK, AccountScopes, AccountShown, AccountDeletions,
         [AccountNext]_accountVars
  PROVE  AccountShown'
<1>1. NoAuthWork.op = "none"
  BY DEF NoAuthWork
<1>2. CASE SessionStep
  <2>1. UNCHANGED misfiled
    BY <1>2, SessionKeeps
  <2>2. CASE (\E a \in Accounts : Login(a)) \/ Logout \/ Start
    BY <1>1, <2>1, <2>2 DEF AccountShown, Login, Logout, Start
  <2>3. CASE ActivateAccountPreferences \/ ClearAccountPreferences
    BY <1>1, <2>1, <2>3 DEF AccountShown, ActivateAccountPreferences, ClearAccountPreferences
  <2>4. CASE DeleteLocalAccountData \/ \E a \in Accounts : ResumeDeletion(a)
    BY <1>1, <2>1, <2>4 DEF AccountShown, DeleteLocalAccountData, ResumeDeletion, BetweenRequests
  <2>5. CASE DeletionFails
    <3>1. auth.step # 8
      BY <2>5, DeletionAt DEF DeletionFails
    <3> QED
      BY <1>1, <2>1, <2>5, <3>1 DEF AccountShown, DeletionFails
  <2> QED
    BY <1>2, <2>2, <2>3, <2>4, <2>5 DEF SessionStep
<1>3. CASE SaveStep
  <2>1. ~misfiled'
    BY <1>3 DEF SaveStep, TakeScope, SaveSettings, PatchAppearance, CommitResultProfile,
       EditLeavesHome, ForgetHomeCollection, RefreshStarts, RefreshFails, ProfileIsCurrent,
       CommitProfile, AccountScopes, AccountShown, history
  <2> QED
    BY <1>3, <2>1, SavesKeep DEF AccountShown
<1>4. CASE DeletionStep
  <2>0. /\ auth.op = "delete" /\ UNCHANGED misfiled /\ auth.step \in 1 .. 9
        /\ At("session") <=> auth.step = 7
        /\ At("active") <=> auth.step = 8
    BY <1>4, DeletionKeeps, DeletionAt
  <2>1. CASE ClearSession
    <3>0. auth.step = 7
      BY <2>0, <2>1 DEF ClearSession
    <3>1. auth'.op = "delete" /\ auth'.step = IF OwnsSession(auth.acct) THEN 8 ELSE 9
      BY <1>4, <2>1, <3>0, DeletionAdvances
    <3>2. OwnsSession(auth.acct) => acct' = None
      BY <2>1 DEF ClearSession
    <3>3. ~OwnsSession(auth.acct) => UNCHANGED <<acct, active>>
      BY <2>1 DEF ClearSession
    <3> QED
      BY <2>0, <2>1, <3>1, <3>2, <3>3 DEF AccountShown, ClearSession
  <2>2. CASE ShowNobodysSettings
    <3>0. auth.step = 8
      BY <2>0, <2>2 DEF ShowNobodysSettings
    <3>1. ~ClearSession
      BY <2>0, <3>0 DEF ClearSession
    <3>2. auth'.op = "delete" /\ auth'.step = 9
      BY <1>4, <3>0, <3>1, DeletionAdvances
    <3> QED
      BY <2>2, <2>0, <3>0, <3>2 DEF AccountShown, ShowNobodysSettings
  <2>3. CASE FinishDeletion
    <3>1. auth' = NoAuthWork /\ auth.step = 9 /\ UNCHANGED <<acct, active>>
      BY <2>0, <2>3, DeletionAt DEF FinishDeletion
    <3> QED
      BY <1>1, <2>0, <3>1 DEF AccountShown
  <2>4. CASE RemoveFromDocument \/ ScrubBackup \/ RemoveRows \/ RemovePosters
    <3>1. auth.step \in 1 .. 6 /\ UNCHANGED <<acct, active>> /\ ~ClearSession
      BY <2>0, <2>4, DeletionAt DEF RemoveFromDocument, ScrubBackup, RemoveRows, RemovePosters, ClearSession
    <3>2. auth'.op = "delete" /\ auth'.step = auth.step + 1
      BY <1>4, <3>1, DeletionAdvances
    <3> QED
      BY <2>0, <3>1, <3>2 DEF AccountShown
  <2> QED
    BY <1>4, <2>1, <2>2, <2>3, <2>4 DEF DeletionStep
<1> QED
  BY <1>2, <1>3, <1>4, NextSteps DEF accountVars, AccountShown

\* A deletion of the signed-in account has frozen the session.
LEMMA AccountDeletionsStep ==
  ASSUME AccountDataAssumption, AccountTypeOK, AccountScopes, AccountDeletions,
         [AccountNext]_accountVars
  PROVE  AccountDeletions'
<1>1. /\ refresh \in RefreshType /\ acct \in Accounts \cup {None} /\ NoAuthWork.op = "none"
      /\ auth \in AuthType
  BY DEF AccountTypeOK, RefreshType, AuthType, NoAuthWork
<1>2. EndScopes => refresh'.current = FALSE
  BY <1>1 DEF EndScopes, RefreshType
<1>3. CASE SessionStep
  <2>1. CASE DeleteLocalAccountData
    <3>1. /\ auth' = [op |-> "delete", acct |-> acct, step |-> 1] /\ DOMAIN journal' = DOMAIN journal \cup {acct}
          /\ resuming' = resuming /\ deleting' = TRUE /\ ~refresh'.current
      BY <1>2, <2>1 DEF DeleteLocalAccountData
    <3> QED
      BY <3>1 DEF AccountDeletions
  <2>2. ASSUME NEW a \in Accounts, ResumeDeletion(a) PROVE AccountDeletions'
    <3>1. /\ auth' = [op |-> "delete", acct |-> a, step |-> 1] /\ UNCHANGED <<acct, journal, resuming>>
          /\ a \in resuming /\ (acct = a => deleting' /\ ~refresh'.current)
      BY <1>2, <2>2 DEF ResumeDeletion
    <3> QED
      BY <3>1 DEF AccountDeletions
  <2>3. CASE DeletionFails
    BY <1>1, <2>3 DEF DeletionFails, AccountDeletions
  <2>4. CASE Start
    BY <1>1, <2>4 DEF Start, Pending, AccountDeletions
  <2>5. CASE (\E a \in Accounts : Login(a)) \/ ActivateAccountPreferences \/ Logout \/ ClearAccountPreferences
    <3>1. UNCHANGED <<journal, resuming>> /\ auth'.op # "delete"
      BY <1>1, <2>5 DEF Login, ActivateAccountPreferences, Logout, ClearAccountPreferences
    <3> QED
      BY <3>1 DEF AccountDeletions
  <2> QED
    BY <1>3, <2>1, <2>2, <2>3, <2>4, <2>5 DEF SessionStep
<1>4. CASE SaveStep
  <2>1. UNCHANGED <<acct, deleting, journal, auth, resuming>>
    BY <1>4, SavesKeep
  <2>2. auth.op = "delete" /\ acct = auth.acct => ~refresh'.current
    <3>1. NoRefresh.current = FALSE /\ [refresh EXCEPT !.stage = "checked"].current = refresh.current
      BY <1>1 DEF NoRefresh, RefreshType
    <3>2. refresh'.current => refresh.current \/ EditLeavesHome \/ RefreshStarts
      BY <1>4, <3>1 DEF SaveStep, TakeScope, SaveSettings, PatchAppearance, CommitResultProfile,
         ForgetHomeCollection, RefreshFails, ProfileIsCurrent, CommitProfile
    <3>3. auth.op = "delete" /\ acct = auth.acct => ~EditLeavesHome /\ ~RefreshStarts
      BY DEF EditLeavesHome, RefreshStarts, AccountScopes, AccountDeletions
    <3> QED
      BY <3>2, <3>3 DEF AccountDeletions
  <2> QED
    BY <2>1, <2>2 DEF AccountDeletions
<1>5. CASE DeletionStep
  <2>0. auth.op = "delete" /\ auth.acct \in Accounts /\ auth.step \in 1 .. 9
    BY <1>5, DeletionKeeps, DeletionAt
  <2>1. CASE FinishDeletion
    BY <1>1, <2>1 DEF FinishDeletion, AccountDeletions
  <2>2. CASE ClearSession
    <3>1. UNCHANGED <<journal, resuming>> /\ acct' # auth.acct
      BY <2>0, <2>2 DEF ClearSession, OwnsSession, AccountDataAssumption
    <3>2. auth'.acct = auth.acct /\ auth'.step # 0
      <4>1. ~FinishDeletion
        BY <2>0, <2>2, DeletionAt DEF ClearSession, FinishDeletion
      <4> QED
        BY <1>5, <2>0, <4>1, DeletionAdvances
    <3> QED
      BY <2>0, <3>1, <3>2 DEF AccountDeletions
  <2>3. CASE ~FinishDeletion /\ ~ClearSession
    <3>1. UNCHANGED <<acct, deleting, journal, resuming, refresh>>
      BY <1>5, <2>3 DEF DeletionStep, RemoveFromDocument, ScrubBackup, RemoveRows, RemovePosters,
         ShowNobodysSettings
    <3>2. auth'.acct = auth.acct /\ auth'.step = auth.step + 1
      BY <1>5, <2>3, DeletionAdvances
    <3>3. auth.step # 7
      <4>1. At("doc") \/ At("scrub") \/ At("rows") \/ At("posters") \/ At("active")
        BY <1>5, <2>3 DEF DeletionStep, RemoveFromDocument, ScrubBackup, RemoveRows, RemovePosters,
           ShowNobodysSettings
      <4> QED
        BY <2>0, <4>1, DeletionAt
    <3> QED
      BY <2>0, <3>1, <3>2, <3>3 DEF AccountDeletions
  <2> QED
    BY <2>1, <2>2, <2>3
<1> QED
  BY <1>3, <1>4, <1>5, NextSteps DEF accountVars, AccountDeletions

\* What was removed stays removed.
LEMMA AccountErasedStep ==
  ASSUME AccountDataAssumption, AccountTypeOK, AccountScopes, AccountDeletions, AccountErased,
         [AccountNext]_accountVars
  PROVE  AccountErased'
<1>1. /\ acct \in Accounts \cup {None} /\ erased \subseteq Accounts /\ None \notin Accounts
      /\ doc \in [Docs -> SUBSET Accounts] /\ backup \in [Docs -> SUBSET Accounts]
      /\ Docs = {"accounts", "collections"} /\ NoAuthWork.op = "none" /\ auth \in AuthType
      /\ scope \in Accounts \cup {None} /\ auth.acct \in Accounts \cup {None}
  BY DEF AccountTypeOK, AuthType, AccountDataAssumption, NoAuthWork, Docs
<1>2. CASE SessionStep
  <2>1. UNCHANGED <<doc, backup>>
    BY <1>2, SessionKeeps
  <2>2. auth'.op = "delete" => auth'.step = 1
    BY <1>1, <1>2 DEF SessionStep, Login, ResumeDeletion, ActivateAccountPreferences, Logout,
         ClearAccountPreferences, DeleteLocalAccountData, DeletionFails, Start
  <2>3. /\ acct' \notin erased'
        /\ erased' \ putBack' \subseteq erased \ putBack
    BY <1>1, <1>2 DEF SessionStep, Login, ResumeDeletion, ActivateAccountPreferences, Logout,
         ClearAccountPreferences, DeleteLocalAccountData, DeletionFails, Start, history, AccountErased
  <2> QED
    BY <2>1, <2>2, <2>3 DEF AccountErased, NoSettingsAfterDeletion
<1>3. CASE SaveStep
  <2>1. UNCHANGED <<acct, auth, erased>>
    BY <1>3, SavesKeep
  <2>2. /\ putBack \subseteq putBack'
        /\ \A d \in Docs, a \in Accounts :
             /\ a \in doc'[d] => \/ a \in doc[d] \cup putBack'
                                 \/ scope # None /\ a = acct
                                 \/ refresh.current /\ a = refresh.acct /\ a = acct
             /\ a \in backup'[d] => a \in backup[d] \cup doc[d]
    BY <1>3, SavesHold DEF AccountScopes
  <2>3. \A d \in Docs, a \in erased \ putBack' : a \notin doc'[d] /\ a \notin backup'[d]
    BY <1>1, <2>2 DEF AccountErased, NoSettingsAfterDeletion
  <2>4. ASSUME auth.op = "delete", auth.acct \notin putBack'
        PROVE  /\ auth.acct \in Accounts /\ auth.acct \notin putBack
               /\ \A d \in Docs : auth.acct \in doc'[d] => auth.acct \in doc[d]
               /\ \A d \in Docs : auth.acct \in backup'[d] => auth.acct \in backup[d] \cup doc[d]
    <3>1. auth.acct \in Accounts
      BY <2>4, DeletionAt
    <3>2. scope = None /\ ~(refresh.current /\ auth.acct = acct)
      BY <2>4 DEF AccountScopes, AccountDeletions
    <3> QED
      BY <2>2, <2>4, <3>1, <3>2
  <2>5. auth.op = "delete" => auth.step \in 1 .. 9
    BY DeletionAt
  <2>6. acct' \notin erased'
    BY <2>1 DEF AccountErased
  <2>7. NoSettingsAfterDeletion'
    BY <2>1, <2>3 DEF NoSettingsAfterDeletion, Docs
  <2>8. auth'.op = "delete" /\ auth'.acct \notin putBack' =>
          /\ auth'.step >= 2 => auth'.acct \notin doc'["accounts"]
          /\ auth'.step >= 3 => auth'.acct \notin backup'["accounts"]
          /\ auth'.step >= 4 => auth'.acct \notin doc'["collections"]
          /\ auth'.step >= 5 => auth'.acct \notin backup'["collections"]
    BY <1>1, <2>1, <2>4, <2>5 DEF AccountErased
  <2> QED
    BY <2>6, <2>7, <2>8 DEF AccountErased
<1>4. CASE DeletionStep
  <2>0. /\ auth.op = "delete" /\ auth.acct \in Accounts /\ auth.step \in 1 .. 9 /\ UNCHANGED putBack
        /\ At("doc") <=> auth.step \in {1, 3}
        /\ At("scrub") <=> auth.step \in {2, 4}
        /\ auth.step \in {1, 2} => Place = "accounts"
        /\ auth.step \in {3, 4} => Place = "collections"
    BY <1>4, DeletionKeeps, DeletionAt
  <2>1. CASE FinishDeletion
    <3>1. /\ UNCHANGED <<acct, doc, backup>> /\ auth'.op = "none" /\ erased' = erased \cup {auth.acct}
          /\ auth.step = 9
      BY <1>1, <2>0, <2>1, DeletionAt DEF FinishDeletion, files
    <3>2. acct # auth.acct
      BY <2>0, <3>1 DEF AccountDeletions
    <3>3. auth.acct \notin putBack => \A d \in Docs : auth.acct \notin doc[d] \cup backup[d]
      BY <1>1, <2>0, <3>1 DEF AccountErased
    <3>4. NoSettingsAfterDeletion'
      BY <2>0, <3>1, <3>3 DEF AccountErased, NoSettingsAfterDeletion, Docs
    <3> QED
      BY <3>1, <3>2, <3>4 DEF AccountErased
  <2>2. CASE RemoveFromDocument
    <3>1. /\ auth.step \in {1, 3} /\ Place \in Docs /\ UNCHANGED <<acct, erased>>
          /\ doc[Place] \ {auth.acct} \in SUBSET Accounts /\ Saved(Place, doc[Place] \ {auth.acct})
      BY <1>1, <2>0, <2>2 DEF RemoveFromDocument, history
    <3>2. \A e \in Docs : /\ doc'[e] = IF e = Place THEN doc[Place] \ {auth.acct} ELSE doc[e]
                          /\ backup'[e] = IF e = Place THEN doc[Place] ELSE backup[e]
      BY <3>1, OneSaved
    <3>3. auth'.op = "delete" /\ auth'.acct = auth.acct /\ auth'.step = auth.step + 1
      <4>1. ~ClearSession
        BY <2>0, <3>1, DeletionAt DEF ClearSession
      <4> QED
        BY <1>4, <3>1, <4>1, DeletionAdvances
    <3>4. NoSettingsAfterDeletion'
      BY <2>0, <3>1, <3>2 DEF AccountErased, NoSettingsAfterDeletion, Docs
    <3>5. auth.acct \notin putBack =>
          /\ auth.step + 1 >= 2 => auth.acct \notin doc'["accounts"]
          /\ auth.step + 1 >= 3 => auth.acct \notin backup'["accounts"]
          /\ auth.step + 1 >= 4 => auth.acct \notin doc'["collections"]
          /\ auth.step + 1 >= 5 => auth.acct \notin backup'["collections"]
      BY <1>1, <2>0, <3>1, <3>2 DEF AccountErased
    <3> QED
      BY <2>0, <3>1, <3>3, <3>4, <3>5 DEF AccountErased
  <2>3. CASE ScrubBackup
    <3>1. /\ auth.step \in {2, 4} /\ Place \in Docs /\ UNCHANGED <<acct, erased, doc>>
          /\ \A e \in Docs : backup'[e] = IF e = Place THEN doc[Place] ELSE backup[e]
      BY <1>1, <2>0, <2>3 DEF ScrubBackup, ReplaceBackupWithPrimary, history
    <3>2. auth'.op = "delete" /\ auth'.acct = auth.acct /\ auth'.step = auth.step + 1
      <4>1. ~ClearSession
        BY <2>0, <3>1, DeletionAt DEF ClearSession
      <4> QED
        BY <1>4, <3>1, <4>1, DeletionAdvances
    <3>3. NoSettingsAfterDeletion'
      BY <2>0, <3>1 DEF AccountErased, NoSettingsAfterDeletion, Docs
    <3>4. auth.acct \notin putBack =>
          /\ auth.step + 1 >= 2 => auth.acct \notin doc["accounts"]
          /\ auth.step + 1 >= 3 => auth.acct \notin backup'["accounts"]
          /\ auth.step + 1 >= 4 => auth.acct \notin doc["collections"]
          /\ auth.step + 1 >= 5 => auth.acct \notin backup'["collections"]
      BY <1>1, <2>0, <3>1 DEF AccountErased
    <3> QED
      BY <2>0, <3>1, <3>2, <3>3, <3>4 DEF AccountErased
  <2>4. CASE RemoveRows \/ RemovePosters \/ ClearSession \/ ShowNobodysSettings
    <3>1. UNCHANGED <<doc, backup, erased>> /\ acct' \in {acct, None}
      BY <2>4 DEF RemoveRows, RemovePosters, ClearSession, ShowNobodysSettings, files, history
    <3>2. auth.step \in 5 .. 8
      BY <2>0, <2>4, DeletionAt DEF RemoveRows, RemovePosters, ClearSession, ShowNobodysSettings
    <3>3. auth'.acct = auth.acct
      BY <1>4, <3>2, DeletionAdvances
    <3>4. NoSettingsAfterDeletion'
      BY <2>0, <3>1 DEF AccountErased, NoSettingsAfterDeletion
    <3>5. auth.acct \notin putBack =>
          /\ auth.acct \notin doc["accounts"] \cup backup["accounts"]
          /\ auth.acct \notin doc["collections"] \cup backup["collections"]
      BY <2>0, <3>2 DEF AccountErased
    <3> QED
      BY <1>1, <2>0, <3>1, <3>3, <3>4, <3>5 DEF AccountErased
  <2> QED
    BY <1>4, <2>1, <2>2, <2>3, <2>4 DEF DeletionStep
<1>5. CASE UNCHANGED accountVars
  BY <1>5 DEF accountVars, AccountErased, NoSettingsAfterDeletion
<1> QED
  BY <1>2, <1>3, <1>4, <1>5, NextSteps

\* A deletion leaves the journal only when it is finished.
LEMMA NotForgottenStep ==
  ASSUME AccountDataAssumption, AccountTypeOK, AccountDeletions, DeletionIsNotForgotten,
         [AccountNext]_accountVars
  PROVE  DeletionIsNotForgotten'
<1>1. NoAuthWork.op = "none"
  BY DEF NoAuthWork
<1>2. CASE SessionStep
  <2>1. CASE DeleteLocalAccountData
    <3>1. /\ auth' = [op |-> "delete", acct |-> acct, step |-> 1] /\ DOMAIN journal' = DOMAIN journal \cup {acct}
          /\ UNCHANGED <<resuming, failedHere>> /\ auth = NoAuthWork
      BY <2>1 DEF DeleteLocalAccountData, BetweenRequests, history
    <3> QED
      BY <1>1, <3>1 DEF DeletionIsNotForgotten
  <2>2. CASE Start
    BY <2>2 DEF Start, Pending, DeletionIsNotForgotten
  <2>3. CASE DeletionFails
    BY <1>1, <2>3 DEF DeletionFails, DeletionIsNotForgotten
  <2>4. CASE ~DeleteLocalAccountData /\ ~Start /\ ~DeletionFails
    <3>1. UNCHANGED <<journal, resuming, failedHere>> /\ auth.op # "delete"
      BY <1>1, <1>2, <2>4 DEF SessionStep, Login, ResumeDeletion, ActivateAccountPreferences, Logout,
         ClearAccountPreferences, BetweenRequests, history
    <3> QED
      BY <3>1 DEF DeletionIsNotForgotten
  <2> QED
    BY <2>1, <2>2, <2>3, <2>4
<1>3. CASE SaveStep
  BY <1>3, SavesKeep DEF DeletionIsNotForgotten
<1>4. CASE DeletionStep
  <2>1. auth.op = "delete" /\ UNCHANGED failedHere
    BY <1>4, DeletionKeeps
  <2>2. CASE FinishDeletion
    BY <1>1, <2>1, <2>2 DEF FinishDeletion, DeletionIsNotForgotten
  <2>3. CASE ~FinishDeletion
    <3>1. UNCHANGED <<journal, resuming>>
      BY <1>4, <2>3 DEF DeletionStep, RemoveFromDocument, ScrubBackup, RemoveRows, RemovePosters,
         ClearSession, ShowNobodysSettings
    <3>2. auth'.op = "delete" /\ auth'.acct = auth.acct
      BY <1>4, <2>3, DeletionAdvances
    <3> QED
      BY <2>1, <3>1, <3>2 DEF DeletionIsNotForgotten
  <2> QED
    BY <2>2, <2>3
<1> QED
  BY <1>2, <1>3, <1>4, NextSteps DEF accountVars, DeletionIsNotForgotten

LEMMA AccountInitially ==
  ASSUME AccountDataAssumption, AccountInit
  PROVE  AccountInv
<1>1. AccountTypeOK
  <2>1. NoAuthWork \in AuthType /\ NoRefresh \in RefreshType
    BY PlanSteps DEF NoAuthWork, NoRefresh, AuthType, RefreshType
  <2>2. doc \in [Docs -> SUBSET Accounts] /\ backup \in [Docs -> SUBSET Accounts]
    BY DEF AccountInit
  <2>3. DOMAIN journal = {}
    BY DEF AccountInit
  <2>4. auth \in AuthType /\ refresh \in RefreshType
    BY <2>1 DEF AccountInit
  <2>5. stepFaults \in 0 .. MaxStepFaults /\ starts \in 0 .. MaxStarts /\ scopes \in 0 .. MaxScopes
    BY DEF AccountInit, AccountDataAssumption
  <2>6. /\ acct \in Accounts \cup {None} /\ active \in Accounts \cup {None} /\ scope \in Accounts \cup {None}
        /\ rows \subseteq Accounts /\ posters \subseteq Accounts /\ resuming \subseteq Accounts
        /\ {erased, failedHere, putBack} \subseteq SUBSET Accounts
        /\ deleting \in BOOLEAN /\ misfiled \in BOOLEAN
    BY DEF AccountInit
  <2> QED
    BY <2>2, <2>3, <2>4, <2>5, <2>6 DEF AccountTypeOK, AuthType, RefreshType
<1>2. AccountScopes /\ AccountShown /\ AccountDeletions /\ DeletionIsNotForgotten
  BY DEF AccountInit, AccountScopes, AccountShown, AccountDeletions, DeletionIsNotForgotten, NoAuthWork,
         NoRefresh
<1>3. AccountErased
  BY DEF AccountInit, AccountErased, NoSettingsAfterDeletion, NoAuthWork
<1> QED
  BY <1>1, <1>2, <1>3 DEF AccountInv

LEMMA AccountInvStep ==
  ASSUME AccountDataAssumption, AccountInv, [AccountNext]_accountVars
  PROVE  AccountInv'
BY AccountTypeStep, AccountScopesStep, AccountShownStep, AccountDeletionsStep, AccountErasedStep,
   NotForgottenStep DEF AccountInv

\* The accounts, documents, journal and requests keep their types (app/services.rs,
\* preferences/service.rs).
THEOREM AccountTypes ==
  ASSUME AccountDataAssumption
  PROVE  AccountSpec => []AccountTypeOK
<1>1. AccountInv => AccountTypeOK
  BY DEF AccountInv
<1> QED
  BY <1>1, AccountInitially, AccountInvStep, PTL DEF AccountSpec

(* Once a deletion has finished nothing brings the account's settings back but an edit   *)
(* that ends late, no deletion is forgotten, and the settings shown and saved are those  *)
(* of the signed-in account: for any number of accounts, failures, starts and saves      *)
(* (complete_pending_deletion, resume_pending_deletions, commit_if_current).             *)
THEOREM DeletionIsFinal ==
  ASSUME AccountDataAssumption
  PROVE  AccountSpec => [](/\ NoSettingsAfterDeletion /\ DeletionIsNotForgotten
                           /\ SettingsFollowTheSession)
<1>1. AccountInv => NoSettingsAfterDeletion /\ DeletionIsNotForgotten /\ SettingsFollowTheSession
  BY DEF AccountInv, AccountErased, AccountShown, SettingsFollowTheSession, BetweenRequests, NoAuthWork
<1> QED
  BY <1>1, AccountInitially, AccountInvStep, PTL DEF AccountSpec

(* A deletion takes nothing of another account and does not sign another account out,   *)
(* also one that a start resumes while someone else is signed in.                       *)
THEOREM OthersAreSpared ==
  ASSUME AccountDataAssumption
  PROVE  AccountSpec => [][DeletionSparesOthers]_accountVars
<1>1. ASSUME AccountInv, AccountNext PROVE DeletionSparesOthers
  <2> SUFFICES ASSUME auth.op = "delete", auth.step # auth'.step, starts' = starts,
                      NEW b \in Accounts \ {auth.acct}
               PROVE  /\ \A d \in Docs : b \in doc[d] => b \in doc'[d]
                      /\ b \in rows => b \in rows'
                      /\ b \in posters => b \in posters'
                      /\ acct = b => acct' = b /\ active' = active
    BY DEF DeletionSparesOthers
  <2>1. /\ AccountTypeOK /\ AccountShown /\ AccountDeletions /\ None \notin Accounts
        /\ starts \in Nat /\ NoAuthWork.op = "none"
    BY <1>1 DEF AccountInv, AccountTypeOK, AccountDataAssumption, NoAuthWork
  <2>2. CASE SessionStep
    <3>1. DeletionFails
      BY <2>1, <2>2 DEF SessionStep, Login, ResumeDeletion, ActivateAccountPreferences, Logout,
         ClearAccountPreferences, DeleteLocalAccountData, Start, BetweenRequests
    <3> QED
      BY <3>1 DEF DeletionFails, files
  <2>3. CASE SaveStep
    BY <2>3, SavesKeep
  <2>4. CASE DeletionStep
    <3>1. CASE RemoveFromDocument
      <4>1. Place \in Docs /\ Saved(Place, doc[Place] \ {auth.acct}) /\ UNCHANGED <<acct, active, rows, posters>>
        BY <2>1, <3>1, DeletionAt DEF RemoveFromDocument, Docs
      <4>2. doc[Place] \ {auth.acct} \in SUBSET Accounts
        BY <2>1, <4>1 DEF AccountTypeOK
      <4> QED
        BY <2>1, <4>1, <4>2, OneSaved
    <3>2. CASE ScrubBackup \/ RemoveRows \/ RemovePosters \/ FinishDeletion
      BY <3>2 DEF ScrubBackup, RemoveRows, RemovePosters, FinishDeletion, files
    <3>3. CASE ClearSession
      BY <3>3 DEF ClearSession, OwnsSession, files
    <3>4. CASE ShowNobodysSettings
      <4>1. auth.step = 8 /\ UNCHANGED <<files, acct>>
        BY <2>1, <3>4, DeletionAt DEF ShowNobodysSettings
      <4> QED
        BY <2>1, <4>1 DEF AccountShown, files
    <3> QED
      BY <2>4, <3>1, <3>2, <3>3, <3>4 DEF DeletionStep
  <2> QED
    BY <1>1, <2>2, <2>3, <2>4, NextSteps DEF accountVars
<1> QED
  BY <1>1, AccountInitially, AccountInvStep, PTL DEF AccountSpec

-----------------------------------------------------------------------------------
(* The plugin's cache.  *)
(* The file never goes back to older entries and no change is forgotten, for any keys  *)
(* (also infinitely many), savers, entries and faults (ProviderCache).                  *)
(*                                                                                   *)
(* Of document, snapshot and file each is a later state than the next (CacheOrder): an *)
(* entry that it holds with an older time it has given up, and what it still holds was *)
(* fetched later.  A change and a prune keep that order.  One saver writes at a time,   *)
(* and unless changes are pending it writes the document (CacheWriters); what is        *)
(* written is pruned already, so that loading it again changes nothing (CachePruned).   *)

Follows(new, old) ==
  \A k \in RatingKeys : new[k] < old[k] => new[k] = 0 /\ \A kept \in Held(new) : new[kept] > old[k]

FiniteDocument(d) == d \in Document /\ IsFiniteSet(Held(d)) /\ \A k \in RatingKeys : d[k] <= upserts

CacheTimes ==
  /\ FiniteDocument(document) /\ FiniteDocument(cacheFile)
  /\ \A s \in Savers : FiniteDocument(saver[s].json)

CacheWriters ==
  /\ \A s, t \in Savers : saver[s].at = "writing" /\ saver[t].at = "writing" => s = t
  /\ \A s \in Savers : saver[s].at = "writing" => cacheDirty \/ saver[s].json = document

CachePruned ==
  /\ Prune(cacheFile) = cacheFile
  /\ \A s \in Savers : saver[s].at = "writing" => Prune(saver[s].json) = saver[s].json

CacheOrder ==
  /\ Follows(document, cacheFile)
  /\ \A s \in Savers : saver[s].at = "writing" =>
       Follows(saver[s].json, cacheFile) /\ Follows(document, saver[s].json)

\* A saver is a record; CacheTypeOK says what its fields are.
SaversAre == saver \in [Savers -> [at : {"rest", "waiting", "writing"}, json : Document]]

ProviderCacheInv ==
  /\ CacheTypeOK /\ SaversAre /\ CacheTimes /\ CacheWriters /\ CachePruned /\ CacheOrder
  /\ NoChangeIsForgotten

\* What a prune keeps: entries with the times they have, each newer than every entry given up.
LEMMA Pruned ==
  ASSUME ProviderCacheAssumption, NEW d \in Document, IsFiniteSet(Held(d))
  PROVE  /\ Prune(d) \in Document /\ Held(Prune(d)) \subseteq Held(d)
         /\ IsFiniteSet(Held(Prune(d)))
         /\ \A k \in RatingKeys : Prune(d)[k] \in {0, d[k]}
         /\ \A k \in RatingKeys, kept \in Held(Prune(d)) :
              Prune(d)[kept] = d[kept] /\ (Prune(d)[k] # d[k] => d[kept] > d[k])
         /\ Prune(Prune(d)) = Prune(d)
<1> DEFINE Newer(e, k) == {other \in Held(e) : e[other] > e[k]}
           p == Prune(d)
<1>1. MaxEntries \in Nat \ {0} /\ MaxUpserts \in Nat /\ d \in [RatingKeys -> 0 .. MaxUpserts]
  BY DEF ProviderCacheAssumption, Document
<1>2. \A k \in RatingKeys : p[k] = IF Cardinality(Newer(d, k)) >= MaxEntries THEN 0 ELSE d[k]
  BY DEF Prune
<1>3. p \in Document /\ \A k \in RatingKeys : p[k] \in {0, d[k]}
  BY <1>1, <1>2 DEF Prune, Document
<1>4. /\ Held(p) \subseteq Held(d) /\ \A k \in Held(p) : k \in RatingKeys /\ p[k] = d[k]
      /\ Held(d) \subseteq RatingKeys
  BY <1>1, <1>3 DEF Held
<1>5. IsFiniteSet(Held(p))
  BY <1>4, FS_Subset
<1>6. \A k \in RatingKeys : /\ IsFiniteSet(Newer(d, k)) /\ Cardinality(Newer(d, k)) \in Nat
                            /\ Newer(p, k) \in SUBSET Held(d)
  <2>1. \A k \in RatingKeys : Newer(d, k) \in SUBSET Held(d)
    OBVIOUS
  <2> QED
    BY <1>4, <2>1, FS_Subset, FS_CardinalityType
<1>7. ASSUME NEW k \in RatingKeys, NEW kept \in Held(p), p[k] # d[k]
      PROVE  d[kept] > d[k]
  <2>1. Cardinality(Newer(d, k)) >= MaxEntries /\ Cardinality(Newer(d, kept)) < MaxEntries
    <3>1. p[kept] > 0 /\ kept \in RatingKeys
      BY <1>4 DEF Held
    <3> QED
      BY <1>1, <1>2, <1>6, <1>7, <3>1
  <2>2. SUFFICES ASSUME ~(d[kept] > d[k]) PROVE FALSE
    OBVIOUS
  <2>3. Newer(d, k) \in SUBSET Newer(d, kept)
    BY <1>1, <1>4, <2>2
  <2>4. Cardinality(Newer(d, k)) <= Cardinality(Newer(d, kept))
    BY <1>4, <1>6, <2>3, FS_Subset
  <2>5. Cardinality(Newer(d, k)) \in Nat /\ Cardinality(Newer(d, kept)) \in Nat
    BY <1>4, <1>6
  <2> HIDE DEF Newer
  <2> QED
    BY <1>1, <2>1, <2>4, <2>5
<1>8. Prune(p) = p
  <2>1. ASSUME NEW k \in RatingKeys, p[k] # 0 PROVE Cardinality(Newer(p, k)) < MaxEntries
    <3>0. Cardinality(Newer(d, k)) \in Nat
      BY <1>6
    <3>1. p[k] = d[k] /\ Cardinality(Newer(d, k)) < MaxEntries
      <4> HIDE DEF Newer, p
      <4> QED
        BY <1>1, <1>2, <2>1, <3>0
    <3>2. Newer(p, k) \in SUBSET Newer(d, k)
      BY <1>4, <3>1
    <3>3. Cardinality(Newer(p, k)) <= Cardinality(Newer(d, k)) /\ Cardinality(Newer(p, k)) \in Nat
      BY <1>6, <3>2, FS_Subset, FS_CardinalityType
    <3> HIDE DEF Newer
    <3> QED
      BY <1>1, <3>0, <3>1, <3>3
  <2>2. \A k \in RatingKeys : Cardinality(Newer(p, k)) \in Nat
    BY <1>4, <1>6, FS_Subset, FS_CardinalityType
  <2>3. \A k \in RatingKeys : Prune(p)[k] = p[k]
    <3>1. \A k \in RatingKeys : Prune(p)[k] = IF Cardinality(Newer(p, k)) >= MaxEntries THEN 0 ELSE p[k]
      BY DEF Prune
    <3> HIDE DEF Newer, p
    <3> QED
      BY <1>1, <2>1, <2>2, <3>1
  <2>4. p = [k \in RatingKeys |-> p[k]] /\ Prune(p) = [k \in RatingKeys |-> Prune(p)[k]]
    BY DEF Prune
  <2> HIDE DEF p
  <2> QED
    BY <2>3, <2>4
<1> QED
  BY <1>3, <1>4, <1>5, <1>7, <1>8

\* A prune keeps what a document follows.
LEMMA PruneFollows ==
  ASSUME ProviderCacheAssumption, NEW d \in Document, IsFiniteSet(Held(d)), NEW f \in Document,
         Follows(d, f)
  PROVE  Follows(Prune(d), f)
<1>1. /\ MaxUpserts \in Nat /\ \A k \in RatingKeys : d[k] \in 0 .. MaxUpserts /\ f[k] \in 0 .. MaxUpserts
      /\ Held(d) \subseteq RatingKeys
  BY DEF ProviderCacheAssumption, Document, Held
<1>2. /\ Held(Prune(d)) \subseteq Held(d)
      /\ \A k \in RatingKeys : Prune(d)[k] \in {0, d[k]}
      /\ \A k \in RatingKeys, kept \in Held(Prune(d)) :
           Prune(d)[kept] = d[kept] /\ (Prune(d)[k] # d[k] => d[kept] > d[k])
  BY Pruned
<1> SUFFICES ASSUME NEW k \in RatingKeys, Prune(d)[k] < f[k]
             PROVE  Prune(d)[k] = 0 /\ \A kept \in Held(Prune(d)) : Prune(d)[kept] > f[k]
  BY DEF Follows
<1>3. CASE Prune(d)[k] = d[k]
  BY <1>1, <1>2, <1>3 DEF Follows
<1>4. CASE Prune(d)[k] # d[k]
  <2>1. Prune(d)[k] = 0 /\ \A kept \in Held(Prune(d)) : kept \in RatingKeys /\ Prune(d)[kept] > d[k]
    BY <1>1, <1>2, <1>4
  <2>2. CASE d[k] < f[k]
    BY <1>1, <1>2, <2>1, <2>2 DEF Follows
  <2>3. CASE d[k] >= f[k]
    BY <1>1, <1>2, <2>1, <2>3
  <2> QED
    BY <1>1, <2>2, <2>3
<1> QED
  BY <1>3, <1>4

LEMMA ProviderCacheStep ==
  ASSUME ProviderCacheAssumption, ProviderCacheInv, [CacheNext]_cacheVars
  PROVE  ProviderCacheInv' /\ FileNeverGoesBack
<1>0. /\ MaxUpserts \in Nat /\ MaxWriteFaults \in Nat /\ upserts \in 0 .. MaxUpserts
      /\ writeFaults \in 0 .. MaxWriteFaults
      /\ document \in Document /\ cacheFile \in Document /\ Document = [RatingKeys -> 0 .. MaxUpserts]
      /\ cacheDirty \in BOOLEAN /\ saveScheduled \in BOOLEAN /\ disposed \in BOOLEAN
      /\ saver \in [Savers -> [at : {"rest", "waiting", "writing"}, json : Document]]
      /\ NoSave \in [at : {"rest"}, json : Document] /\ FiniteDocument(NoSave.json)
      /\ \A d : Held(d) \subseteq RatingKeys
  <2>1. NoSave.json = [k \in RatingKeys |-> 0] /\ NoSave.at = "rest"
    BY DEF NoSave
  <2>2. Held(NoSave.json) = {}
    BY <2>1 DEF Held
  <2>3. Document = [RatingKeys -> 0 .. MaxUpserts]
    BY DEF Document
  <2>4. /\ MaxUpserts \in Nat /\ MaxWriteFaults \in Nat /\ upserts \in 0 .. MaxUpserts
        /\ writeFaults \in 0 .. MaxWriteFaults
        /\ document \in Document /\ cacheFile \in Document
        /\ cacheDirty \in BOOLEAN /\ saveScheduled \in BOOLEAN /\ disposed \in BOOLEAN
        /\ saver \in [Savers -> [at : {"rest", "waiting", "writing"}, json : Document]]
    BY DEF ProviderCacheInv, CacheTypeOK, SaversAre, ProviderCacheAssumption
  <2>5. NoSave.json \in Document
    BY <2>1, <2>3, <2>4
  <2>6. NoSave \in [at : {"rest"}, json : Document]
    BY <2>5 DEF NoSave
  <2>7. FiniteDocument(NoSave.json)
    <3>1. IsFiniteSet(Held(NoSave.json))
      BY <2>2, FS_EmptySet
    <3>2. \A k \in RatingKeys : NoSave.json[k] = 0
      BY <2>1
    <3> QED
      BY <2>4, <2>5, <3>1, <3>2 DEF FiniteDocument
  <2> QED
    BY <2>3, <2>4, <2>6, <2>7 DEF Held
<1>1. \A k \in RatingKeys : /\ document[k] \in 0 .. upserts /\ cacheFile[k] \in 0 .. upserts
                            /\ \A s \in Savers : saver[s].json[k] \in 0 .. upserts
  BY <1>0 DEF ProviderCacheInv, CacheTimes, FiniteDocument
<1>2. CacheTypeOK /\ SaversAre /\ CacheTimes /\ CacheWriters /\ CachePruned /\ CacheOrder /\ NoChangeIsForgotten
  BY DEF ProviderCacheInv
<1>3. cacheFile' = cacheFile => FileNeverGoesBack
  BY <1>1 DEF FileNeverGoesBack
<1>4. ASSUME NEW k \in RatingKeys, Upsert(k) PROVE ProviderCacheInv' /\ FileNeverGoesBack
  <2>1. /\ upserts' = upserts + 1 /\ upserts' \in 0 .. MaxUpserts /\ document' = [document EXCEPT ![k] = upserts']
        /\ cacheDirty' = TRUE /\ UNCHANGED <<cacheFile, disposed, saver, writeFaults>>
    BY <1>0, <1>4 DEF Upsert
  <2>2. saveScheduled' \in BOOLEAN
    BY <1>4, Zenon DEF Upsert
  <2>3. document' \in Document /\ Held(document') \subseteq Held(document) \cup {k}
    BY <1>0, <2>1 DEF Held
  <2>4. FiniteDocument(document)'
    <3>1. IsFiniteSet(Held(document) \cup {k})
      BY <1>2, FS_AddElement DEF CacheTimes, FiniteDocument
    <3>2. IsFiniteSet(Held(document'))
      BY <2>3, <3>1, FS_Subset
    <3> QED
      BY <1>0, <1>1, <2>1, <2>3, <3>2 DEF FiniteDocument
  <2>5. CacheTimes'
    BY <1>0, <1>2, <2>1, <2>4 DEF CacheTimes, FiniteDocument
  <2>6. ASSUME NEW f \in Document, \A j \in RatingKeys : f[j] <= upserts, Follows(document, f)
        PROVE  Follows(document', f)
    <3>1. ASSUME NEW j \in RatingKeys, document'[j] < f[j]
          PROVE  document'[j] = 0 /\ \A kept \in Held(document') : document'[kept] > f[j]
      <4>1. j # k /\ document'[j] = document[j]
        BY <1>0, <2>1, <2>6, <3>1
      <4>2. document[j] = 0 /\ \A kept \in Held(document) : document[kept] > f[j]
        BY <2>6, <3>1, <4>1 DEF Follows
      <4>3. document'[k] > f[j]
        BY <1>0, <2>1, <2>6
      <4>4. \A kept \in Held(document') :
               kept = k \/ (kept \in Held(document) /\ document'[kept] = document[kept])
        <5>1. \A kept \in RatingKeys : kept # k => document'[kept] = document[kept]
          BY <1>0, <2>1
        <5>2. ASSUME NEW kept \in Held(document'), kept # k
              PROVE  kept \in Held(document) /\ document'[kept] = document[kept]
          <6>1. kept \in RatingKeys /\ document'[kept] > 0
            BY <5>2 DEF Held
          <6> QED
            BY <5>1, <5>2, <6>1 DEF Held
        <5> QED
          BY <5>2
      <4> QED
        BY <4>1, <4>2, <4>3, <4>4
    <3> QED
      BY <3>1 DEF Follows
  <2>7. CacheOrder'
    <3>1. Follows(document', cacheFile)
      BY <1>0, <1>1, <1>2, <2>6 DEF CacheOrder
    <3>2. ASSUME NEW s \in Savers, saver[s].at = "writing" PROVE Follows(document', saver[s].json)
      BY <1>0, <1>1, <1>2, <2>6, <3>2 DEF CacheOrder
    <3> QED
      BY <1>2, <2>1, <3>1, <3>2 DEF CacheOrder
  <2>8. CacheTypeOK' /\ SaversAre'
    BY <1>0, <2>1, <2>2, <2>3 DEF CacheTypeOK, SaversAre
  <2>9. CacheWriters' /\ CachePruned' /\ NoChangeIsForgotten'
    BY <1>2, <2>1 DEF CacheWriters, CachePruned, NoChangeIsForgotten
  <2> QED
    BY <1>3, <2>1, <2>5, <2>7, <2>8, <2>9 DEF ProviderCacheInv
<1>5. ASSUME NEW s \in Savers, TimerFires(s) \/ Dispose(s) PROVE ProviderCacheInv' /\ FileNeverGoesBack
  <2>1. /\ saver[s].at = "rest" /\ saver' = [saver EXCEPT ![s].at = "waiting"]
        /\ UNCHANGED <<document, cacheFile, cacheDirty, upserts, writeFaults>>
        /\ saveScheduled' \in BOOLEAN /\ disposed' \in BOOLEAN
    BY <1>0, <1>5 DEF TimerFires, Dispose
  <2>2. /\ saver' \in [Savers -> [at : {"rest", "waiting", "writing"}, json : Document]]
        /\ \A t \in Savers : saver'[t].json = saver[t].json
        /\ \A t \in Savers : saver'[t].at = "writing" <=> saver[t].at = "writing"
    BY <1>0, <2>1
  <2>3. CacheTypeOK' /\ SaversAre' /\ CacheTimes'
    BY <1>0, <1>2, <2>1, <2>2 DEF CacheTypeOK, SaversAre, CacheTimes, FiniteDocument
  <2>4. CacheWriters' /\ CachePruned' /\ CacheOrder' /\ NoChangeIsForgotten'
    BY <1>2, <2>1, <2>2 DEF CacheWriters, CachePruned, CacheOrder, NoChangeIsForgotten
  <2> QED
    BY <1>3, <2>1, <2>3, <2>4 DEF ProviderCacheInv
<1>6. ASSUME NEW s \in Savers, TakeSnapshot(s) PROVE ProviderCacheInv' /\ FileNeverGoesBack
  <2>1. /\ \A t \in Savers : saver[t].at # "writing" /\ cacheDirty' = FALSE
        /\ UNCHANGED <<cacheFile, saveScheduled, disposed, upserts, writeFaults>>
    BY <1>6 DEF TakeSnapshot, WriteLockFree
  <2>2. CASE cacheDirty
    <3>1. document' = Prune(document) /\ saver' = [saver EXCEPT ![s] = [at |-> "writing", json |-> document']]
      BY <1>6, <2>2 DEF TakeSnapshot
    <3>2. /\ document' \in Document /\ FiniteDocument(document)' /\ Prune(document') = document'
          /\ Follows(document', cacheFile)
      <4>1. document \in Document /\ IsFiniteSet(Held(document)) /\ Follows(document, cacheFile)
        BY <1>0, <1>2 DEF CacheTimes, FiniteDocument, CacheOrder
      <4>2. /\ document' \in Document /\ IsFiniteSet(Held(document')) /\ Prune(document') = document'
            /\ \A k \in RatingKeys : document'[k] \in {0, document[k]}
        BY <3>1, <4>1, Pruned
      <4>3. \A k \in RatingKeys : document'[k] <= upserts'
        BY <1>0, <1>1, <2>1, <4>2
      <4> QED
        BY <1>0, <3>1, <4>1, <4>2, <4>3, PruneFollows DEF FiniteDocument
    <3>3. /\ saver' \in [Savers -> [at : {"rest", "waiting", "writing"}, json : Document]]
          /\ saver'[s].at = "writing" /\ saver'[s].json = document'
          /\ \A t \in Savers \ {s} : saver'[t] = saver[t]
      BY <1>0, <3>1, <3>2
    <3>4. CacheTypeOK' /\ SaversAre'
      BY <1>0, <2>1, <3>2, <3>3 DEF CacheTypeOK, SaversAre
    <3>5. CacheTimes'
      BY <1>2, <2>1, <3>2, <3>3 DEF CacheTimes, FiniteDocument
    <3>6. CacheWriters' /\ NoChangeIsForgotten'
      BY <2>1, <3>3 DEF CacheWriters, NoChangeIsForgotten
    <3>7. CachePruned'
      BY <1>2, <2>1, <3>2, <3>3 DEF CachePruned
    <3>8. Follows(document', document')
      BY <1>0, <3>2 DEF Follows
    <3>9. CacheOrder'
      BY <2>1, <3>2, <3>3, <3>8 DEF CacheOrder
    <3> QED
      BY <1>3, <2>1, <3>4, <3>5, <3>6, <3>7, <3>9 DEF ProviderCacheInv
  <2>3. CASE ~cacheDirty
    <3>1. document' = document /\ saver' = [saver EXCEPT ![s] = NoSave]
      BY <1>6, <2>3 DEF TakeSnapshot
    <3>2. /\ saver' \in [Savers -> [at : {"rest", "waiting", "writing"}, json : Document]]
          /\ \A t \in Savers : saver'[t].at # "writing" /\ saver'[t].json \in {saver[t].json, NoSave.json}
      BY <1>0, <2>1, <3>1
    <3>3. CacheTypeOK' /\ SaversAre'
      BY <1>0, <2>1, <3>1, <3>2 DEF CacheTypeOK, SaversAre
    <3>4. CacheTimes'
      BY <1>0, <1>2, <2>1, <3>1, <3>2 DEF CacheTimes, FiniteDocument
    <3>5. CacheWriters' /\ CachePruned' /\ CacheOrder' /\ NoChangeIsForgotten'
      BY <1>2, <2>1, <2>3, <3>1, <3>2 DEF CacheWriters, CachePruned, CacheOrder, NoChangeIsForgotten
    <3> QED
      BY <1>3, <2>1, <3>3, <3>4, <3>5 DEF ProviderCacheInv
  <2> QED
    BY <2>2, <2>3
<1>7. ASSUME NEW s \in Savers, WriteSucceeds(s) PROVE ProviderCacheInv' /\ FileNeverGoesBack
  <2>1. /\ saver[s].at = "writing" /\ cacheFile' = saver[s].json /\ saver' = [saver EXCEPT ![s] = NoSave]
        /\ UNCHANGED <<document, cacheDirty, saveScheduled, disposed, upserts, writeFaults>>
    BY <1>7 DEF WriteSucceeds
  <2>2. /\ saver' \in [Savers -> [at : {"rest", "waiting", "writing"}, json : Document]]
        /\ \A t \in Savers : saver'[t].at # "writing" /\ saver'[t].json \in {saver[t].json, NoSave.json}
    BY <1>0, <1>2, <2>1 DEF CacheWriters
  <2>3. CacheTypeOK' /\ SaversAre' /\ CacheTimes'
    BY <1>0, <1>2, <2>1, <2>2 DEF CacheTypeOK, SaversAre, CacheTimes, FiniteDocument
  <2>4. CacheWriters' /\ CachePruned' /\ CacheOrder' /\ NoChangeIsForgotten'
    BY <1>2, <2>1, <2>2 DEF CacheWriters, CachePruned, CacheOrder, NoChangeIsForgotten
  <2>5. FileNeverGoesBack
    BY <1>2, <2>1 DEF CacheOrder, Follows, FileNeverGoesBack
  <2> QED
    BY <2>3, <2>4, <2>5 DEF ProviderCacheInv
<1>8. ASSUME NEW s \in Savers, WriteFails(s) PROVE ProviderCacheInv' /\ FileNeverGoesBack
  <2>1. /\ saver[s].at = "writing" /\ saver' = [saver EXCEPT ![s] = NoSave] /\ cacheDirty' = TRUE
        /\ writeFaults' \in 0 .. MaxWriteFaults
        /\ UNCHANGED <<document, cacheFile, saveScheduled, disposed, upserts>>
    BY <1>0, <1>8 DEF WriteFails, StillPending
  <2>2. /\ saver' \in [Savers -> [at : {"rest", "waiting", "writing"}, json : Document]]
        /\ \A t \in Savers : saver'[t].at # "writing" /\ saver'[t].json \in {saver[t].json, NoSave.json}
    BY <1>0, <1>2, <2>1 DEF CacheWriters
  <2>3. CacheTypeOK' /\ SaversAre' /\ CacheTimes'
    BY <1>0, <1>2, <2>1, <2>2 DEF CacheTypeOK, SaversAre, CacheTimes, FiniteDocument
  <2>4. CacheWriters' /\ CachePruned' /\ CacheOrder' /\ NoChangeIsForgotten'
    BY <1>2, <2>1, <2>2 DEF CacheWriters, CachePruned, CacheOrder, NoChangeIsForgotten
  <2> QED
    BY <1>3, <2>1, <2>3, <2>4 DEF ProviderCacheInv
<1>9. ASSUME ReloadCache PROVE ProviderCacheInv' /\ FileNeverGoesBack
  <2>1. /\ document' = cacheFile /\ cacheDirty' = FALSE /\ saveScheduled' = FALSE /\ disposed' = FALSE
        /\ saver' = [s \in Savers |-> NoSave] /\ writeFaults' \in 0 .. MaxWriteFaults
        /\ UNCHANGED <<cacheFile, upserts>>
    BY <1>0, <1>2, <1>9 DEF ReloadCache, CachePruned
  <2>2. /\ saver' \in [Savers -> [at : {"rest", "waiting", "writing"}, json : Document]]
        /\ \A t \in Savers : saver'[t].at # "writing" /\ saver'[t].json = NoSave.json
    BY <1>0, <2>1
  <2>3. CacheTypeOK' /\ SaversAre' /\ CacheTimes'
    BY <1>0, <1>2, <2>1, <2>2 DEF CacheTypeOK, SaversAre, CacheTimes, FiniteDocument
  <2>4. CacheWriters' /\ CachePruned' /\ NoChangeIsForgotten'
    BY <1>2, <2>1, <2>2 DEF CacheWriters, CachePruned, NoChangeIsForgotten
  <2>5. CacheOrder'
    BY <1>0, <2>1, <2>2 DEF CacheOrder, Follows
  <2> QED
    BY <1>3, <2>1, <2>3, <2>4, <2>5 DEF ProviderCacheInv
<1>10. ASSUME UNCHANGED cacheVars PROVE ProviderCacheInv' /\ FileNeverGoesBack
  BY <1>2, <1>3, <1>10 DEF cacheVars, ProviderCacheInv, CacheTypeOK, SaversAre, CacheTimes, FiniteDocument, CacheWriters,
     CachePruned, CacheOrder, NoChangeIsForgotten
<1> QED
  BY <1>4, <1>5, <1>6, <1>7, <1>8, <1>9, <1>10 DEF CacheNext

LEMMA ProviderCacheInitially ==
  ASSUME ProviderCacheAssumption, CacheInit
  PROVE  ProviderCacheInv
<1>1. /\ NoSave.json = [k \in RatingKeys |-> 0] /\ NoSave.at = "rest" /\ MaxUpserts \in Nat /\ MaxWriteFaults \in Nat
      /\ NoSave \in [at : {"rest"}, json : [RatingKeys -> {0}]] /\ MaxEntries \in Nat
  BY DEF NoSave, ProviderCacheAssumption
<1>2. Held(NoSave.json) = {} /\ NoSave.json \in Document
  BY <1>1 DEF Held, Document
<1>3. Prune(NoSave.json) = NoSave.json
  BY <1>1 DEF Prune
<1>4. FiniteDocument(NoSave.json)
  BY <1>1, <1>2, FS_EmptySet DEF FiniteDocument, CacheInit
<1>5. CacheTypeOK /\ SaversAre
  <2>1. saver \in [Savers -> [at : {"rest", "waiting", "writing"}, json : Document]]
    <3>1. NoSave \in [at : {"rest", "waiting", "writing"}, json : Document]
      BY <1>2 DEF NoSave
    <3> QED
      BY <3>1 DEF CacheInit
  <2>2. /\ document \in Document /\ cacheFile \in Document /\ upserts \in 0 .. MaxUpserts
        /\ writeFaults \in 0 .. MaxWriteFaults
    BY <1>1, <1>2 DEF CacheInit
  <2>3. cacheDirty \in BOOLEAN /\ saveScheduled \in BOOLEAN /\ disposed \in BOOLEAN
    BY Zenon DEF CacheInit
  <2> QED
    BY <2>1, <2>2, <2>3 DEF CacheTypeOK, SaversAre
<1>6. CacheTimes /\ CacheWriters /\ CachePruned /\ NoChangeIsForgotten
  BY <1>1, <1>3, <1>4 DEF CacheInit, CacheTimes, CacheWriters, CachePruned, NoChangeIsForgotten
<1>7. CacheOrder
  BY <1>1 DEF CacheInit, CacheOrder, Follows
<1> QED
  BY <1>5, <1>6, <1>7 DEF ProviderCacheInv

\* The cache's document, file, savers and counters keep their types (ProviderCache.cs).
THEOREM CacheTypes ==
  ASSUME ProviderCacheAssumption
  PROVE  CacheSpec => []CacheTypeOK
<1>1. ProviderCacheInv => CacheTypeOK
  BY DEF ProviderCacheInv
<1> QED
  BY <1>1, ProviderCacheInitially, ProviderCacheStep, PTL DEF CacheSpec

(* However many timer callbacks and disposals overlap and writes fail, what the file     *)
(* lacks is pending or being written, and no write replaces an entry by an earlier one   *)
(* or drops one that is not older than all it keeps (Flush, TryWrite, PruneLocked).      *)
THEOREM CacheIsKept ==
  ASSUME ProviderCacheAssumption
  PROVE  CacheSpec => []NoChangeIsForgotten /\ [][FileNeverGoesBack]_cacheVars
<1>1. ProviderCacheInv => NoChangeIsForgotten
  BY DEF ProviderCacheInv
<1> QED
  BY <1>1, ProviderCacheInitially, ProviderCacheStep, PTL DEF CacheSpec

-----------------------------------------------------------------------------------
(* Opening the library.  *)
(* Whatever step the program dies at and whatever fails, a library that opens is whole  *)
(* and the rows of schema 13 are kept, for any rows and any number of crashes and       *)
(* faults (LibraryFile).                                                               *)
(*                                                                                   *)
(* A file keeps its old version until all is back (FileVersions).  While both tables of *)
(* the old rows are there they hold what the first start found; when one is gone, what  *)
(* was read holds it, and after a crash there is no way to this version (RowsAreKept).  *)
(* Without a crash each step knows the tables and the session exactly (FileUnbroken).   *)

AfterSave == {"drop", "create", "restore session", "restore rows"}
MadeTables == {NewTables[i] : i \in 1 .. made}
FoundTables == IF oldVersion = 0 THEN {} ELSE Set(IF oldVersion <= 13 THEN OldTables ELSE NewTables)

FileVersions ==
  /\ oldVersion \in {0, 12, 13, Current, Current + 1} /\ version \in {oldVersion, Current}
  /\ oldVersion > 13 => version = oldVersion
  /\ oldVersion = 0 => wasSignedIn = FALSE
  /\ opening \in AfterSave => version < Current
  /\ opening = "save" => version < Current
  /\ opening \in {"device", "import", "open"} => version >= Current
  /\ opening \in {"save", "drop"} => version > 0

FileTables ==
  /\ opening \in {"save", "drop"} => made = 0
  /\ opening = "create" => MadeTables \subseteq tables
  /\ version >= Current \/ opening \in {"restore session", "restore rows"} => Set(NewTables) \subseteq tables
  /\ opening \in {"import", "open"} => hasDevice
  /\ opening = "open" => RowsWaiting = {}

FileUnbroken ==
  fileCrashes = 0 =>
    /\ version >= Current => /\ opening = "failed" => fileFaults > 0
                             /\ oldVersion <= Current => hasSession = wasSignedIn
    /\ version < Current =>
         /\ opening # "failed"
         /\ opening \in {"down", "version", "save"} => tables = FoundTables /\ hasSession = wasSignedIn
         /\ opening \in {"drop", "create", "restore session"} => savedSession = wasSignedIn
         /\ opening = "create" => tables = MadeTables
         /\ opening = "restore rows" => hasSession = wasSignedIn

RowsAreKept ==
  oldVersion = 13 =>
    /\ version = 13 /\ {"profiles", "playback"} \subseteq tables =>
         rowsIn["profiles"] \cup rowsIn["playback"] = foundRows
    /\ opening \in AfterSave => savedRows["profiles"] \cup savedRows["playback"] = foundRows
    /\ opening \in AfterSave \ {"drop"} => "playback" \notin tables
    /\ version = Current => foundRows \subseteq RowsWaiting \cup accountFiles

LibraryFileInv == LibraryFileTypeOK /\ FileVersions /\ FileTables /\ FileUnbroken /\ RowsAreKept

\* The tables of both schemas, and the order they are dropped in.
LEMMA FileTableNames ==
  /\ Len(NewTables) = 4 /\ DOMAIN NewTables = 1 .. 4
  /\ NewTables[1] = "credentials" /\ NewTables[2] = "others"
  /\ NewTables[3] = "profiles" /\ NewTables[4] = "handoff"
  /\ Set(NewTables) = {"credentials", "others", "profiles", "handoff"}
  /\ Set(OldTables) = {"credentials", "profiles", "playback", "others"}
  /\ \A i \in DOMAIN InFileOrder : InFileOrder[i] \in Set(OldTables) \cup Set(NewTables)
  /\ \A t \in Set(OldTables) \cup Set(NewTables) : \E i \in DOMAIN InFileOrder : InFileOrder[i] = t
<1> DEFINE Names == {"credentials", "profiles", "playback", "others", "handoff"}
<1>1. /\ Len(NewTables) = 4 /\ DOMAIN NewTables = 1 .. 4
      /\ NewTables[1] = "credentials" /\ NewTables[2] = "others"
      /\ NewTables[3] = "profiles" /\ NewTables[4] = "handoff"
  BY DEF NewTables
<1>2. /\ Len(OldTables) = 4 /\ DOMAIN OldTables = 1 .. 4
      /\ OldTables[1] = "credentials" /\ OldTables[2] = "profiles"
      /\ OldTables[3] = "playback" /\ OldTables[4] = "others"
  BY DEF OldTables
<1>3. Set(NewTables) = {"credentials", "others", "profiles", "handoff"}
  BY <1>1 DEF Set
<1>4. Set(OldTables) = {"credentials", "profiles", "playback", "others"}
  BY <1>2 DEF Set
<1>5. OldTables \in Seq(Names) /\ NewTables \in Seq(Names)
  BY DEF OldTables, NewTables
<1>6. /\ DOMAIN InFileOrder = 1 .. 8
      /\ \A i \in 1 .. 8 : InFileOrder[i] = IF i <= 4 THEN OldTables[i] ELSE NewTables[i - 4]
  <2>1. /\ InFileOrder \in Seq(Names) /\ Len(InFileOrder) = 8
        /\ \A i \in 1 .. 8 : InFileOrder[i] = IF i <= 4 THEN OldTables[i] ELSE NewTables[i - 4]
    <3> HIDE DEF Names
    <3>1. /\ InFileOrder \in Seq(Names) /\ Len(InFileOrder) = Len(OldTables) + Len(NewTables)
          /\ \A i \in 1 .. Len(OldTables) + Len(NewTables) :
               InFileOrder[i] = IF i <= Len(OldTables) THEN OldTables[i] ELSE NewTables[i - Len(OldTables)]
      BY <1>5, ConcatProperties, Zenon DEF InFileOrder
    <3>2. Len(OldTables) = 4 /\ Len(NewTables) = 4
      BY <1>1, <1>2
    <3> QED
      BY <3>1, <3>2
  <2> QED
    BY <2>1
<1>7. \A i \in DOMAIN InFileOrder : InFileOrder[i] \in Set(OldTables) \cup Set(NewTables)
  BY <1>1, <1>2, <1>6 DEF Set
<1>8. \A t \in Set(OldTables) \cup Set(NewTables) : \E i \in DOMAIN InFileOrder : InFileOrder[i] = t
  <2>1. /\ InFileOrder[1] = "credentials" /\ InFileOrder[2] = "profiles" /\ InFileOrder[3] = "playback"
        /\ InFileOrder[4] = "others" /\ InFileOrder[8] = "handoff"
    BY <1>1, <1>2, <1>6
  <2> QED
    BY <1>3, <1>4, <1>6, <2>1
<1> QED
  BY <1>1, <1>3, <1>4, <1>7, <1>8

LEMMA LibraryFileInitially ==
  ASSUME LibraryFileAssumption, LibraryFileInit
  PROVE  LibraryFileInv
<1>1. /\ Current \in Nat /\ Current > 13 /\ MaxFileCrashes \in Nat /\ MaxFileFaults \in Nat
      /\ version \in {0, 12, 13, Current, Current + 1} /\ oldVersion = version
      /\ tables = FoundTables /\ opening = "down" /\ fileCrashes = 0 /\ fileFaults = 0
      /\ wasSignedIn = hasSession /\ hasDevice \in BOOLEAN /\ hasSession \in BOOLEAN /\ made = 0
      /\ accountFiles = {} /\ savedSession = FALSE /\ savedRows = NoRows
      /\ foundRows = rowsIn["profiles"] \cup rowsIn["playback"]
  BY DEF LibraryFileInit, LibraryFileAssumption, FoundTables
<1>2. rowsIn \in [RowTables -> SUBSET LegacyRows] /\ NoRows \in [RowTables -> SUBSET LegacyRows]
  BY DEF LibraryFileInit, NoRows, RowTables
<1>3. LibraryFileTypeOK
  <2>1. foundRows \subseteq LegacyRows
    BY <1>1, <1>2 DEF RowTables
  <2>2. tables \subseteq Set(OldTables) \cup Set(NewTables)
    BY <1>1 DEF FoundTables
  <2>3. {hasDevice, hasSession, savedSession, wasSignedIn} \subseteq BOOLEAN
    BY <1>1
  <2>4. opening \in Steps /\ made \in 0 .. Len(NewTables) /\ version \in Nat
    BY <1>1, FileTableNames DEF Steps
  <2> QED
    BY <1>1, <1>2, <2>1, <2>2, <2>3, <2>4 DEF LibraryFileTypeOK
<1>4. version = 0 => ~wasSignedIn
  <2>1. hasSession \in {FALSE, version # 0}
    BY Zenon DEF LibraryFileInit
  <2>2. ASSUME version = 0, wasSignedIn PROVE FALSE
    <3>1. hasSession = FALSE \/ hasSession = FALSE
      BY <2>1, <2>2
    <3> QED
      BY <1>1, <2>2, <3>1
  <2> QED
    BY <2>2
<1>5. FileVersions /\ FileUnbroken
  BY <1>1, <1>4 DEF FileVersions, FileUnbroken, AfterSave
<1>6. FileTables /\ RowsAreKept
  BY <1>1 DEF FileTables, RowsAreKept, AfterSave, FoundTables
<1> QED
  BY <1>3, <1>5, <1>6 DEF LibraryFileInv

\* Reading the version and the old file, and dropping its tables.
LEMMA OldFileStep ==
  ASSUME LibraryFileAssumption, LibraryFileInv,
         StartProgram \/ ReadVersion \/ SaveOld \/ DropTable \/ AllDropped
  PROVE  LibraryFileInv'
<1>1. /\ Current \in Nat /\ Current > 13 /\ MaxFileCrashes \in Nat /\ MaxFileFaults \in Nat
      /\ LibraryFileTypeOK /\ FileVersions /\ FileTables /\ FileUnbroken /\ RowsAreKept
  BY DEF LibraryFileInv, LibraryFileAssumption
<1>2. CASE StartProgram
  <2>1. UNCHANGED <<version, tables, hasDevice, hasSession, rowsIn, made, accountFiles, savedSession,
                    savedRows, wasSignedIn, foundRows, oldVersion, fileCrashes, fileFaults>>
        /\ opening \in {"down", "failed"} /\ opening' = "version"
    BY <1>2 DEF StartProgram, StepKeeps, KeepHistory, fileRows, savedVars, foundVars
  <2>2. LibraryFileTypeOK'
    BY <1>1, <2>1 DEF LibraryFileTypeOK, Steps
  <2>3. FileVersions'
    BY <1>1, <2>1 DEF FileVersions, AfterSave
  <2>4. FileTables'
    BY <1>1, <2>1 DEF FileTables, RowsWaiting, MadeTables
  <2>5. FileUnbroken'
    BY <1>1, <2>1 DEF FileUnbroken, FoundTables
  <2>6. RowsAreKept'
    BY <1>1, <2>1 DEF RowsAreKept, AfterSave, RowsWaiting
  <2> QED
    BY <2>2, <2>3, <2>4, <2>5, <2>6 DEF LibraryFileInv
<1>3. CASE ReadVersion
  <2>1. /\ UNCHANGED <<version, tables, hasDevice, hasSession, rowsIn, accountFiles, wasSignedIn,
                       foundRows, oldVersion, fileCrashes, fileFaults>>
        /\ opening = "version" /\ made' = 0 /\ savedSession' = FALSE /\ savedRows' = NoRows
        /\ opening' = IF version >= Current THEN "device" ELSE IF version > 0 THEN "save" ELSE "create"
    BY <1>3 DEF ReadVersion, From, KeepHistory, fileRows, foundVars
  <2>2. NoRows \in [RowTables -> SUBSET LegacyRows] /\ 0 \in 0 .. Len(NewTables)
    BY FileTableNames DEF NoRows
  <2>3. LibraryFileTypeOK'
    BY <1>1, <2>1, <2>2 DEF LibraryFileTypeOK, Steps
  <2>4. FileVersions' /\ RowsAreKept'
    BY <1>1, <2>1 DEF FileVersions, RowsAreKept, AfterSave, RowsWaiting
  <2>5. FileTables' /\ MadeTables' = {}
    BY <1>1, <2>1 DEF FileTables, FileVersions, MadeTables, RowsWaiting
  <2>6. FileUnbroken'
    <3>1. version = 0 /\ fileCrashes = 0 => tables = {} /\ ~wasSignedIn
      BY <1>1, <2>1 DEF FileVersions, FileUnbroken, FoundTables
    <3> QED
      <4>1. ASSUME fileCrashes = 0, version = 0 PROVE savedSession' = wasSignedIn
        <5>1. wasSignedIn \in BOOLEAN
          BY <1>1 DEF LibraryFileTypeOK
        <5> QED
          BY <2>1, <3>1, <4>1, <5>1
      <4>2. version \in Nat
        BY <1>1 DEF LibraryFileTypeOK
      <4>3. opening' = "create" => version = 0
        BY <1>1, <2>1, <4>2
      <4> QED
        BY <1>1, <2>1, <2>5, <3>1, <4>1, <4>2, <4>3 DEF FileUnbroken, FoundTables
  <2> QED
    BY <2>3, <2>4, <2>5, <2>6 DEF LibraryFileInv
<1>4. CASE SaveOld
  <2>1. /\ UNCHANGED <<version, tables, hasDevice, hasSession, rowsIn, made, accountFiles, wasSignedIn,
                       foundRows, oldVersion, fileCrashes, fileFaults>>
        /\ opening = "save" /\ savedSession' = ("credentials" \in tables /\ hasSession)
    BY <1>4 DEF SaveOld, From, KeepHistory, fileRows, foundVars
  <2>2. \/ opening' = "failed" /\ savedRows' = savedRows /\ version = 13 /\ ~({"profiles", "playback"} \subseteq tables)
        \/ opening' = "drop" /\ savedRows' = NoRows /\ version # 13
        \/ opening' = "drop" /\ savedRows' = rowsIn /\ version = 13 /\ {"profiles", "playback"} \subseteq tables
    BY <1>4 DEF SaveOld, From
  <2>3. LibraryFileTypeOK'
    BY <1>1, <2>1, <2>2 DEF LibraryFileTypeOK, Steps, NoRows
  <2>4. FileVersions' /\ FileTables'
    BY <1>1, <2>1, <2>2 DEF FileVersions, FileTables, AfterSave, RowsWaiting
  <2>6. RowsAreKept'
    <3>1. oldVersion = 13 => version = 13
      BY <1>1, <2>1 DEF FileVersions
    <3>2. version = 13 /\ opening' = "drop" => savedRows' = rowsIn /\ {"profiles", "playback"} \subseteq tables
      BY <2>2
    <3>3. oldVersion = 13 => version # Current
      BY <1>1, <3>1
    <3>4. oldVersion = 13 /\ opening' = "drop" => savedRows'["profiles"] \cup savedRows'["playback"] = foundRows
      BY <1>1, <3>1, <3>2 DEF RowsAreKept
    <3>5. opening' \in {"failed", "drop"}
      BY <2>2
    <3> QED
      BY <1>1, <2>1, <3>3, <3>4, <3>5 DEF RowsAreKept, AfterSave
  <2>5. FileUnbroken'
    <3>1. fileCrashes = 0 => tables = Set(OldTables)
      BY <1>1, <2>1 DEF FileVersions, FileUnbroken, FoundTables
    <3>2. fileCrashes = 0 => savedSession' = wasSignedIn
      BY <1>1, <2>1, <3>1, FileTableNames DEF FileVersions, FileUnbroken, LibraryFileTypeOK
    <3>3. fileCrashes = 0 => opening' = "drop"
      BY <2>2, <3>1, FileTableNames
    <3> QED
      BY <1>1, <2>1, <3>2, <3>3 DEF FileVersions, FileUnbroken
  <2> QED
    BY <2>3, <2>4, <2>5, <2>6 DEF LibraryFileInv
<1>5. CASE DropTable
  <2>1. PICK t \in tables :
          /\ tables' = tables \ {t} /\ opening = "drop" /\ opening' = "drop"
          /\ hasDevice' = (hasDevice /\ t # "credentials") /\ hasSession' = (hasSession /\ t # "credentials")
          /\ rowsIn' = [r \in RowTables |-> IF r = t THEN {} ELSE rowsIn[r]]
          /\ UNCHANGED <<version, made, accountFiles, savedSession, savedRows, wasSignedIn, foundRows,
                         oldVersion, fileCrashes, fileFaults>>
    BY <1>5 DEF DropTable, Left, From, StepKeeps, KeepHistory, savedVars, foundVars
  <2>2. LibraryFileTypeOK'
    BY <1>1, <2>1 DEF LibraryFileTypeOK, Steps
  <2>3. FileVersions' /\ FileTables' /\ FileUnbroken'
    BY <1>1, <2>1 DEF FileVersions, FileTables, FileUnbroken, AfterSave
  <2>4. RowsAreKept'
    <3>1. {"profiles", "playback"} \subseteq tables' => rowsIn'["profiles"] = rowsIn["profiles"] /\ rowsIn'["playback"] = rowsIn["playback"]
      BY <2>1 DEF RowTables
    <3> QED
      BY <1>1, <2>1, <3>1 DEF RowsAreKept, FileVersions, AfterSave
  <2> QED
    BY <2>2, <2>3, <2>4 DEF LibraryFileInv
<1>6. CASE AllDropped
  <2>1. /\ UNCHANGED <<version, tables, hasDevice, hasSession, rowsIn, made, accountFiles, savedSession,
                       savedRows, wasSignedIn, foundRows, oldVersion, fileCrashes, fileFaults>>
        /\ opening = "drop" /\ opening' = "create" /\ Left = {}
    BY <1>6 DEF AllDropped, From, StepKeeps, KeepHistory, fileRows, savedVars, foundVars
  <2>2. tables = {}
    BY <1>1, <2>1, FileTableNames DEF LibraryFileTypeOK, Left
  <2> QED
    BY <1>1, <2>1, <2>2 DEF LibraryFileInv, LibraryFileTypeOK, Steps, FileVersions, FileTables, FileUnbroken,
       RowsAreKept, AfterSave, MadeTables, FoundTables
<1> QED
  BY <1>2, <1>3, <1>4, <1>5, <1>6

\* Making this schema's tables, writing back what was read, and the version.
LEMMA NewFileStep ==
  ASSUME LibraryFileAssumption, LibraryFileInv,
         CreateTable \/ RestoreSession \/ RestoreRow \/ SetVersion \/ EnsureDevice
  PROVE  LibraryFileInv'
<1>1. /\ Current \in Nat /\ Current > 13 /\ MaxFileCrashes \in Nat /\ MaxFileFaults \in Nat
      /\ LibraryFileTypeOK /\ FileVersions /\ FileTables /\ FileUnbroken /\ RowsAreKept
  BY DEF LibraryFileInv, LibraryFileAssumption
<1>2. /\ UNCHANGED <<accountFiles, savedSession, savedRows, wasSignedIn, foundRows, oldVersion,
                     fileCrashes, fileFaults>>
  BY DEF CreateTable, RestoreSession, RestoreRow, SetVersion, EnsureDevice, StepKeeps, KeepHistory,
     savedVars, foundVars
<1>3. CASE CreateTable
  <2>1. /\ UNCHANGED <<version, hasDevice, hasSession, rowsIn>> /\ opening = "create"
        /\ \/ made = Len(NewTables) /\ opening' = "restore session" /\ UNCHANGED <<tables, made>>
           \/ /\ made # Len(NewTables) /\ NewTables[made + 1] \in tables
              /\ opening' = "failed" /\ UNCHANGED <<tables, made>>
           \/ /\ made # Len(NewTables) /\ opening' = "create" /\ made' = made + 1
              /\ tables' = tables \cup {NewTables[made + 1]}
    BY <1>3 DEF CreateTable, From, fileRows
  <2>2. made \in 0 .. 4 /\ Len(NewTables) = 4
    BY <1>1, FileTableNames DEF LibraryFileTypeOK
  <2>3. made # 4 => /\ made + 1 \in DOMAIN NewTables
                    /\ NewTables[made + 1] \in Set(NewTables)
                    /\ NewTables[made + 1] \notin MadeTables
                    /\ NewTables[made + 1] # "playback"
    BY <2>2, FileTableNames DEF MadeTables, Set
  <2>4. made' = made + 1 => MadeTables' = MadeTables \cup {NewTables[made + 1]}
    BY <2>2 DEF MadeTables
  <2>5. LibraryFileTypeOK'
    <3>0. tables \subseteq Set(OldTables) \cup Set(NewTables)
      BY <1>1 DEF LibraryFileTypeOK
    <3>1. tables' \subseteq Set(OldTables) \cup Set(NewTables) /\ made' \in 0 .. 4
      <4>1. CASE UNCHANGED <<tables, made>>
        BY <2>2, <3>0, <4>1
      <4>2. CASE ~UNCHANGED <<tables, made>>
        <5>1. made # 4 /\ made' = made + 1 /\ tables' = tables \cup {NewTables[made + 1]}
          BY <2>1, <2>2, <4>2
        <5> QED
          BY <2>2, <2>3, <3>0, <5>1
      <4> QED
        BY <4>1, <4>2
    <3>2. opening' \in Steps
      BY <2>1 DEF Steps
    <3> QED
      BY <1>1, <1>2, <2>1, <2>2, <3>1, <3>2 DEF LibraryFileTypeOK
  <2>6. FileVersions'
    BY <1>1, <1>2, <2>1 DEF FileVersions, AfterSave
  <2>7. FileTables'
    <3>1. made = 4 => MadeTables = Set(NewTables)
      BY FileTableNames DEF MadeTables, Set
    <3>2. made' = made => MadeTables' = MadeTables
      BY DEF MadeTables
    <3> QED
      BY <1>1, <2>1, <2>4, <2>6, <3>1, <3>2, FileTableNames DEF FileTables, FileVersions, AfterSave
  <2>8. FileUnbroken'
    <3>1. fileCrashes = 0 => opening' # "failed"
      BY <1>1, <2>1, <2>3, FileTableNames DEF FileUnbroken, FileVersions, AfterSave
    <3> QED
      BY <1>1, <1>2, <2>1, <2>4, <3>1 DEF FileUnbroken, FileVersions, AfterSave
  <2>9. RowsAreKept'
    <3>1. "playback" \in tables' => "playback" \in tables
      BY <2>1, <2>2, <2>3
    <3>2. oldVersion = 13 => "playback" \notin tables' /\ version < Current
      BY <1>1, <2>1, <3>1 DEF RowsAreKept, FileVersions, AfterSave
    <3>3. oldVersion = 13 => version' # Current
      <4>1. version \in Nat /\ version' = version
        BY <1>1, <2>1 DEF LibraryFileTypeOK
      <4> QED
        BY <1>1, <3>2, <4>1
    <3>4. oldVersion = 13 => savedRows["profiles"] \cup savedRows["playback"] = foundRows
      BY <1>1, <2>1 DEF RowsAreKept, AfterSave
    <3> QED
      BY <1>2, <2>1, <3>2, <3>3, <3>4 DEF RowsAreKept
  <2> QED
    BY <2>5, <2>6, <2>7, <2>8, <2>9 DEF LibraryFileInv
<1>4. CASE RestoreSession
  <2>1. /\ UNCHANGED <<version, tables, rowsIn, made>>
        /\ opening = "restore session" /\ opening' = "restore rows"
        /\ hasSession' = savedSession /\ hasDevice' = (hasDevice \/ savedSession)
    BY <1>4 DEF RestoreSession, RestoredSession, From
  <2>2. LibraryFileTypeOK'
    BY <1>1, <1>2, <2>1 DEF LibraryFileTypeOK, Steps
  <2>3. FileVersions' /\ FileTables'
    BY <1>1, <1>2, <2>1 DEF FileVersions, FileTables, AfterSave
  <2>4. FileUnbroken' /\ RowsAreKept'
    BY <1>1, <1>2, <2>1 DEF FileVersions, FileUnbroken, RowsAreKept, AfterSave, RowsWaiting
  <2> QED
    BY <2>2, <2>3, <2>4 DEF LibraryFileInv
<1>5. CASE RestoreRow
  <2>1. /\ UNCHANGED <<version, tables, hasDevice, hasSession, made>>
        /\ opening = "restore rows" /\ opening' = "restore rows"
        /\ rowsIn' \in [RowTables -> SUBSET LegacyRows]
    <3>1. PICK r \in LegacyRows :
            \/ rowsIn' = [rowsIn EXCEPT !["profiles"] = @ \cup {r}]
            \/ rowsIn' = [rowsIn EXCEPT !["handoff"] = @ \cup {r}]
      BY <1>5 DEF RestoreRow
    <3>2. rowsIn \in [RowTables -> SUBSET LegacyRows]
      BY <1>1 DEF LibraryFileTypeOK
    <3>3. rowsIn' \in [RowTables -> SUBSET LegacyRows]
      BY <3>1, <3>2 DEF RowTables
    <3> QED
      BY <1>5, <3>3 DEF RestoreRow, From
  <2>2. version < Current
    BY <1>1, <2>1 DEF FileVersions, AfterSave
  <2>3. LibraryFileTypeOK'
    BY <1>1, <1>2, <2>1 DEF LibraryFileTypeOK
  <2>4. FileVersions' /\ FileTables' /\ FileUnbroken'
    BY <1>1, <1>2, <2>1, <2>2 DEF FileVersions, FileTables, FileUnbroken, AfterSave
  <2>5. RowsAreKept'
    <3>0. version \in Nat /\ version' = version /\ tables' = tables
      BY <1>1, <2>1 DEF LibraryFileTypeOK
    <3>1. oldVersion = 13 => "playback" \notin tables' /\ version' # Current
      <4>1. oldVersion = 13 => "playback" \notin tables
        BY <1>1, <2>1 DEF RowsAreKept, AfterSave
      <4> QED
        BY <1>1, <2>2, <3>0, <4>1
    <3>2. oldVersion = 13 => savedRows["profiles"] \cup savedRows["playback"] = foundRows
      BY <1>1, <2>1 DEF RowsAreKept, AfterSave
    <3> QED
      BY <1>2, <3>1, <3>2 DEF RowsAreKept
  <2> QED
    BY <2>3, <2>4, <2>5 DEF LibraryFileInv
<1>6. CASE SetVersion
  <2>1. /\ UNCHANGED <<tables, hasDevice, hasSession, rowsIn, made>> /\ RowsAreBack
        /\ opening = "restore rows" /\ opening' = "device" /\ version' = Current
    BY <1>6 DEF SetVersion, SchemaIsReady, From
  <2>0. LibraryFileTypeOK'
    BY <1>1, <1>2, <2>1 DEF LibraryFileTypeOK, Steps
  <2>2. FileVersions'
    <3>1. version < Current /\ version \in Nat
      BY <1>1, <2>1 DEF FileVersions, AfterSave, LibraryFileTypeOK
    <3>2. ~(oldVersion > 13)
      BY <1>1, <3>1 DEF FileVersions
    <3> QED
      <4>1. oldVersion \in {0, 12, 13, Current, Current + 1} /\ (oldVersion = 0 => wasSignedIn = FALSE)
        BY <1>1 DEF FileVersions
      <4>2. version' = Current /\ opening' = "device" /\ UNCHANGED <<oldVersion, wasSignedIn>>
        BY <1>2, <2>1
      <4> QED
        <5>1. oldVersion' = 0 => wasSignedIn' = FALSE
          BY <4>1, <4>2, Zenon
        <5>2. /\ oldVersion' \in {0, 12, 13, Current, Current + 1} /\ ~(oldVersion' > 13)
              /\ version' \in {oldVersion', Current} /\ version' >= Current
          BY <1>1, <3>2, <4>1, <4>2
        <5> QED
          BY <4>2, <5>1, <5>2 DEF FileVersions, AfterSave
  <2>3. FileTables' /\ FileUnbroken'
    BY <1>1, <1>2, <2>1 DEF FileTables, FileVersions, FileUnbroken, AfterSave
  <2>4. RowsAreKept'
    BY <1>1, <1>2, <2>1 DEF RowsAreKept, AfterSave, RowsAreBack, RowsWaiting
  <2> QED
    BY <2>0, <2>2, <2>3, <2>4 DEF LibraryFileInv
<1>7. CASE EnsureDevice
  <2>1. /\ UNCHANGED <<version, tables, hasSession, rowsIn, made>>
        /\ opening = "device" /\ opening' = "import" /\ hasDevice' = TRUE
    BY <1>7 DEF EnsureDevice, From
  <2>2. LibraryFileTypeOK' /\ FileVersions'
    BY <1>1, <1>2, <2>1 DEF LibraryFileTypeOK, Steps, FileVersions, AfterSave
  <2>3. FileTables' /\ FileUnbroken' /\ RowsAreKept'
    BY <1>1, <1>2, <2>1 DEF FileTables, FileVersions, FileUnbroken, RowsAreKept, AfterSave, RowsWaiting
  <2> QED
    BY <2>2, <2>3 DEF LibraryFileInv
<1> QED
  BY <1>3, <1>4, <1>5, <1>6, <1>7

\* The rows' way into the account files, and the end of the program at any step.
LEMMA ImportStep ==
  ASSUME LibraryFileAssumption, LibraryFileInv,
         ImportRow \/ ImportFails \/ FinishImport \/ ProgramEnds \/ UNCHANGED libraryFileVars
  PROVE  LibraryFileInv'
<1>1. /\ Current \in Nat /\ Current > 13 /\ MaxFileCrashes \in Nat /\ MaxFileFaults \in Nat
      /\ LibraryFileTypeOK /\ FileVersions /\ FileTables /\ FileUnbroken /\ RowsAreKept
  BY DEF LibraryFileInv, LibraryFileAssumption
<1>2. UNCHANGED <<version, tables, hasDevice, hasSession, made, savedSession, savedRows, wasSignedIn,
                  foundRows, oldVersion>>
  BY DEF ImportRow, ImportFails, FinishImport, ProgramEnds, libraryFileVars, StepKeeps, KeepHistory, fileRows,
     savedVars, foundVars
<1>3. CASE ImportRow
  <2>1. /\ UNCHANGED <<rowsIn, fileCrashes, fileFaults>> /\ opening = "import" /\ opening' = "import"
        /\ \E r \in RowsWaiting : accountFiles' = accountFiles \cup {r}
    BY <1>3 DEF ImportRow, From, fileRows, KeepHistory
  <2>2. RowsWaiting \subseteq LegacyRows
    BY <1>1 DEF LibraryFileTypeOK, RowsWaiting, RowTables
  <2>3. LibraryFileTypeOK'
    BY <1>1, <1>2, <2>1, <2>2 DEF LibraryFileTypeOK
  <2>4. FileVersions' /\ FileTables' /\ FileUnbroken' /\ RowsAreKept'
    BY <1>1, <1>2, <2>1 DEF FileVersions, FileTables, FileUnbroken, RowsAreKept, AfterSave, RowsWaiting
  <2> QED
    BY <2>3, <2>4 DEF LibraryFileInv
<1>4. CASE ImportFails
  <2>1. /\ UNCHANGED <<rowsIn, fileCrashes, accountFiles>> /\ opening = "import" /\ opening' = "failed"
        /\ fileFaults < MaxFileFaults /\ fileFaults' = fileFaults + 1
    BY <1>4 DEF ImportFails, From, fileRows, KeepHistory
  <2>2. fileFaults \in Nat /\ fileFaults' \in 0 .. MaxFileFaults /\ "failed" \in Steps
    BY <1>1, <2>1 DEF LibraryFileTypeOK, Steps
  <2>3. LibraryFileTypeOK'
    BY <1>1, <1>2, <2>1, <2>2 DEF LibraryFileTypeOK
  <2>4. FileVersions' /\ FileTables' /\ FileUnbroken' /\ RowsAreKept'
    BY <1>1, <1>2, <2>1, <2>2 DEF FileTables, FileVersions, FileUnbroken, RowsAreKept, AfterSave, RowsWaiting
  <2> QED
    BY <2>3, <2>4 DEF LibraryFileInv
<1>5. CASE FinishImport
  <2>1. /\ UNCHANGED <<accountFiles, fileCrashes, fileFaults>> /\ RowsWaiting \subseteq accountFiles
        /\ opening = "import" /\ opening' = "open"
        /\ rowsIn' = [rowsIn EXCEPT !["profiles"] = {}, !["handoff"] = {}]
    BY <1>5 DEF FinishImport, AllImported, From, StepKeeps, KeepHistory
  <2>2. version >= Current /\ rowsIn' \in [RowTables -> SUBSET LegacyRows] /\ RowsWaiting' = {}
    BY <1>1, <2>1 DEF LibraryFileTypeOK, FileVersions, RowTables, RowsWaiting
  <2>3. LibraryFileTypeOK' /\ FileVersions'
    BY <1>1, <1>2, <2>1, <2>2 DEF LibraryFileTypeOK, Steps, FileVersions, AfterSave
  <2>4. FileTables' /\ FileUnbroken'
    BY <1>1, <1>2, <2>1, <2>2 DEF FileTables, FileUnbroken
  <2>5. RowsAreKept'
    BY <1>1, <1>2, <2>1, <2>2 DEF RowsAreKept, AfterSave
  <2> QED
    BY <2>3, <2>4, <2>5 DEF LibraryFileInv
<1>6. CASE ProgramEnds
  <2>1. /\ UNCHANGED <<rowsIn, accountFiles, fileFaults>> /\ opening # "down" /\ opening' = "down"
        /\ fileCrashes' = fileCrashes + (IF opening \in {"open", "failed"} THEN 0 ELSE 1)
        /\ fileCrashes' <= MaxFileCrashes
    BY <1>6 DEF ProgramEnds, fileRows
  <2>2. fileCrashes \in Nat /\ opening \in Steps
    BY <1>1 DEF LibraryFileTypeOK
  <2>3. fileCrashes' = 0 => fileCrashes = 0 /\ opening \in {"open", "failed"}
    BY <2>1, <2>2
  <2>4. LibraryFileTypeOK'
    <3>1. fileCrashes' \in 0 .. MaxFileCrashes
      <4>1. fileCrashes' \in Nat
        BY <2>1, <2>2
      <4> QED
        BY <1>1, <2>1, <4>1
    <3>2. opening' \in Steps
      BY <2>1 DEF Steps
    <3> QED
      BY <1>1, <1>2, <2>1, <3>1, <3>2 DEF LibraryFileTypeOK
  <2>5. FileVersions' /\ FileTables' /\ RowsAreKept'
    BY <1>1, <1>2, <2>1 DEF FileVersions, FileTables, RowsAreKept, AfterSave, RowsWaiting
  <2>6. FileUnbroken'
    <3>1. version \in Nat
      BY <1>1 DEF LibraryFileTypeOK
    <3>2. ASSUME fileCrashes' = 0 PROVE version >= Current
      <4>1. opening = "open" => version >= Current
        BY <1>1 DEF FileVersions
      <4>2. opening = "failed" => ~(version < Current)
        BY <1>1, <2>3, <3>2, Zenon DEF FileUnbroken
      <4> QED
        BY <1>1, <2>3, <3>1, <3>2, <4>1, <4>2
    <3>3. ASSUME fileCrashes' = 0, oldVersion <= Current PROVE hasSession = wasSignedIn
      BY <1>1, <2>3, <3>2, <3>3, Zenon DEF FileUnbroken
    <3>4. fileCrashes' = 0 => ~(version' < Current) /\ opening' # "failed"
      BY <1>1, <1>2, <2>1, <3>1, <3>2
    <3>5. UNCHANGED <<oldVersion, hasSession, wasSignedIn>>
      BY <1>2
    <3> QED
      BY <3>3, <3>4, <3>5 DEF FileUnbroken
  <2> QED
    BY <2>4, <2>5, <2>6 DEF LibraryFileInv
<1>7. CASE UNCHANGED libraryFileVars
  <2>1. UNCHANGED <<rowsIn, accountFiles, opening, fileCrashes, fileFaults>>
    BY <1>7 DEF libraryFileVars, fileRows
  <2>2. LibraryFileTypeOK' /\ FileVersions'
    BY <1>1, <1>2, <2>1 DEF LibraryFileTypeOK, FileVersions
  <2>3. FileTables' /\ FileUnbroken' /\ RowsAreKept'
    BY <1>1, <1>2, <2>1, ZenonT(30) DEF FileTables, FileUnbroken, RowsAreKept, RowsWaiting, MadeTables, FoundTables
  <2> QED
    BY <2>2, <2>3 DEF LibraryFileInv
<1> QED
  BY <1>3, <1>4, <1>5, <1>6, <1>7

LEMMA LibraryFileStep ==
  ASSUME LibraryFileAssumption, LibraryFileInv, [LibraryFileNext]_libraryFileVars
  PROVE  LibraryFileInv'
BY OldFileStep, NewFileStep, ImportStep DEF LibraryFileNext

\* The library's file, what is read from it and the steps of an opening keep their types (db.rs).
THEOREM LibraryFileTypes ==
  ASSUME LibraryFileAssumption
  PROVE  LibraryFileSpec => []LibraryFileTypeOK
<1>1. LibraryFileInv => LibraryFileTypeOK
  BY DEF LibraryFileInv
<1> QED
  BY <1>1, LibraryFileInitially, LibraryFileStep, PTL DEF LibraryFileSpec

(* A library that opens has its tables and its device; no row of schema 13 is lost once  *)
(* the file is of this version; and a start fails only after a crash or a fault (open,    *)
(* migrate, import_legacy_account_data).                                                *)
THEOREM LibraryOpensWhole ==
  ASSUME LibraryFileAssumption
  PROVE  LibraryFileSpec => []FileOpensWhole
<1>1. ASSUME LibraryFileInv PROVE FileOpensWhole
  <2>1. /\ Current \in Nat /\ Current > 13 /\ LibraryFileTypeOK /\ FileVersions /\ FileTables
        /\ FileUnbroken /\ RowsAreKept
    BY <1>1 DEF LibraryFileInv, LibraryFileAssumption
  <2>2. opening = "failed" => fileCrashes + fileFaults > 0
    BY <2>1 DEF LibraryFileTypeOK, FileUnbroken
  <2>3. ASSUME oldVersion \in {12, 13}, version = Current, fileCrashes = 0 PROVE hasSession = wasSignedIn
    <3>1. version >= Current /\ oldVersion <= Current
      BY <2>1, <2>3
    <3> QED
      BY <2>1, <2>3, <3>1, Zenon DEF FileUnbroken
  <2>4. /\ opening = "open" => hasDevice /\ RowsWaiting = {}
        /\ version >= Current => Set(NewTables) \subseteq tables
        /\ oldVersion = 13 /\ version = Current => foundRows \subseteq RowsWaiting \cup accountFiles
    BY <2>1 DEF FileTables, RowsAreKept
  <2> QED
    BY <2>2, <2>3, <2>4 DEF FileOpensWhole
<1> QED
  BY <1>1, LibraryFileInitially, LibraryFileStep, PTL DEF LibraryFileSpec

-----------------------------------------------------------------------------------
(* Ratings in the plugin.  *)
(* A title is asked of MDBList by one refresh at a time, answered or explained to every *)
(* batch, and never left marked as being refreshed, for any titles, batches, background *)
(* refreshes, keys and failures.                                                        *)
(*                                                                                   *)
(* A batch keeps the clock of its start: of what it no longer waits for it holds an     *)
(* answer by that clock (BatchesHold), whoever fetched it.  Who asks MDBList holds the  *)
(* gate (AskersWait), so nobody fetches meanwhile what it still asks for (AskedIsOld).  *)
(*                                                                                   *)

AskersWait == \A a \in Askers : asker[a].at = "asking" => refreshGate = a
BatchHolds(b) ==
  \/ asker[b].at = "left" /\ asker[b].told = TRUE
  \/ \A t \in asker[b].asked \ asker[b].todo : ~Expired(t, asker[b].since)
BatchesHold ==
  \A b \in Batches : asker[b].at # "idle" =>
    /\ asker[b].since <= ratingsClock /\ BatchHolds(b)
    /\ asker[b].at = "left" => asker[b].todo = {}
\* What MDBList is being asked for is out of date until it is answered.
AskedIsOld ==
  \A a \in Askers : asker[a].at = "asking" =>
    \A t \in asker[a].todo : Expired(t, ratingsClock) \/ Stale(t, ratingsClock)
RatingsInv == RatingsTypeOK /\ AskersWait /\ BatchesHold /\ AskedIsOld /\ ClaimedIsRefreshed

LEMMA RatingsFacts ==
  ASSUME RatingsAssumption, RatingsTypeOK
  PROVE  /\ FreshAge \in Nat /\ FreshAge > 0 /\ ExpireAge \in Nat /\ ExpireAge = 2 * FreshAge
         /\ MaxRatingsTime \in Nat /\ MaxRatingsTime > 0 /\ MaxBatches \in Nat
         /\ MaxAdminCalls \in Nat
         /\ ratingsClock \in Nat /\ ratingsClock >= 1 /\ ratingsClock <= MaxRatingsTime
         /\ fetchTime \in [RatedTitles -> Nat]
         /\ \A t \in RatedTitles : fetchTime[t] <= MaxRatingsTime
         /\ \A a \in Batches : a \notin Refreshers /\ a \in Askers
         /\ \A a \in Refreshers : a \notin Batches /\ a \in Askers
         /\ "free" \notin Askers
BY DEF RatingsAssumption, RatingsTypeOK, ExpireAge, Askers

LEMMA HealthTypes ==
  ASSUME RatingsAssumption, RatingsTypeOK, NEW h \in Healths, NEW outcome \in MdbListOutcomes,
         NEW preserve \in BOOLEAN
  PROVE  /\ NoHealth \in Healths
         /\ AfterValidation(h, outcome, ratingsClock, preserve) \in Healths
<1>1. /\ MaxRatingsTime \in Nat /\ ratingsClock \in 1 .. MaxRatingsTime
  BY DEF RatingsAssumption, RatingsTypeOK
<1>2. NoHealth \in Healths
  BY <1>1 DEF NoHealth, Healths, Never
<1> SUFFICES AfterValidation(h, outcome, ratingsClock, preserve) \in Healths
  BY <1>2
<1>3. /\ h.valid \in BOOLEAN /\ h.retryAt \in 0 .. MaxRatingsTime + 3 /\ h.failures \in 0 .. 2
  BY DEF Healths
<1> DEFINE k == IF h.failures < 2 THEN h.failures + 1 ELSE 2
<1>4. k \in 0 .. 2 /\ ratingsClock + k \in 0 .. MaxRatingsTime + 3
  BY <1>1, <1>3
<1>5. ratingsClock + 2 \in 0 .. MaxRatingsTime + 3 /\ ratingsClock + 1 \in 0 .. MaxRatingsTime + 3
      /\ 0 \in 0 .. MaxRatingsTime + 3
  BY <1>1
<1> HIDE DEF k
<1>6. CASE outcome = "success"
  BY <1>5, <1>6 DEF AfterValidation, Healths, Never
<1>7. CASE outcome = "exhausted"
  BY <1>5, <1>7 DEF AfterValidation, Healths, Never
<1>8. CASE outcome = "rejected"
  BY <1>2, <1>8 DEF AfterValidation
<1>9. CASE outcome = "limited"
  BY <1>5, <1>9 DEF AfterValidation, Healths
<1>10. CASE outcome = "failed"
  <2> DEFINE n == [valid |-> preserve /\ h.valid, retryAt |-> ratingsClock + k, failures |-> k]
  <2>1. AfterValidation(h, outcome, ratingsClock, preserve) = n
    BY <1>10 DEF AfterValidation, Backoff, k
  <2>2. (preserve /\ h.valid) \in BOOLEAN
    BY <1>3
  <2>3. n \in Healths
    BY <1>4, <2>2 DEF Healths
  <2> QED
    BY <2>1, <2>3
<1> QED
  BY <1>2, <1>6, <1>7, <1>8, <1>9, <1>10 DEF MdbListOutcomes

LEMMA IdleAskerType ==
  ASSUME RatingsAssumption
  PROVE  /\ IdleAsker \in AskerRecord /\ IdleAsker.at = "idle" /\ IdleAsker.asked = {}
         /\ NoHealth \in Healths
<1>1. NoHealth \in Healths
  BY DEF NoHealth, Healths, Never, RatingsAssumption
<1> QED
  BY <1>1 DEF IdleAsker, AskerRecord, RatingsAssumption

\* The asker is done: a background refresh is idle again, a batch goes on to its answer.
LEMMA LeaveShape ==
  ASSUME RatingsAssumption, RatingsTypeOK, NEW a \in Askers, NEW told \in BOOLEAN,
         LeaveRefresh(a, told)
  PROVE  /\ asker' \in [Askers -> AskerRecord]
         /\ \A c \in Askers : c # a => asker'[c] = asker[c]
         /\ a \in Refreshers => asker'[a] = IdleAsker
         /\ a \in Batches => /\ asker'[a].at = "left" /\ asker'[a].todo = {} /\ asker'[a].told = told
                             /\ asker'[a].asked = asker[a].asked /\ asker'[a].since = asker[a].since
         /\ asker'[a].at # "asking" /\ asker'[a].todo \subseteq asker'[a].asked
         /\ refreshGate' \in Askers \cup {"free"}
         /\ \A c \in Askers : c # a => (refreshGate' = c <=> refreshGate = c)
         /\ claimed' \subseteq claimed
         /\ a \in Refreshers => claimed' = claimed \ asker[a].asked
<1>1. asker[a] \in AskerRecord /\ asker \in [Askers -> AskerRecord]
  BY DEF RatingsTypeOK
<1> DEFINE n == IF a \in Refreshers THEN IdleAsker
                ELSE [asker[a] EXCEPT !.at = "left", !.told = told, !.todo = {}, !.health = NoHealth]
<1>2. asker' = [asker EXCEPT ![a] = n] /\ claimed' = claimed \ Released(a, told)
      /\ refreshGate' = IF refreshGate = a THEN "free" ELSE refreshGate
  BY DEF LeaveRefresh
<1>3. CASE a \in Refreshers
  <2>1. a \notin Batches /\ n = IdleAsker /\ claimed' = claimed \ asker[a].asked
    BY <1>2, <1>3, RatingsFacts DEF Released
  <2>2. n \in AskerRecord /\ n.at # "asking" /\ n.todo \subseteq n.asked
    BY <2>1, IdleAskerType DEF IdleAsker
  <2> HIDE DEF n
  <2> QED
    BY <1>1, <1>2, <1>3, <2>1, <2>2, RatingsFacts DEF RatingsTypeOK
<1>4. CASE a \notin Refreshers
  <2>1. n = [asker[a] EXCEPT !.at = "left", !.told = told, !.todo = {}, !.health = NoHealth]
    BY <1>4
  <2>2. n \in AskerRecord /\ n.at = "left" /\ n.todo = {} /\ n.told = told
        /\ n.asked = asker[a].asked /\ n.since = asker[a].since
    BY <1>1, <2>1, IdleAskerType DEF AskerRecord
  <2> HIDE DEF n
  <2> QED
    BY <1>1, <1>2, <1>4, <2>2, RatingsFacts DEF RatingsTypeOK, Released
<1> QED
  BY <1>3, <1>4

\* A batch that begins, and the background refresh it may queue.
LEMMA BatchShape ==
  ASSUME RatingsAssumption, RatingsTypeOK, NEW b \in Batches,
         NEW titles \in SUBSET RatedTitles, Batch(b, titles)
  PROVE  /\ asker[b].at = "idle" /\ asker'[b] \in AskerRecord
         /\ asker'[b].at \in {"gate", "left"} /\ asker'[b].todo \subseteq titles
         /\ asker'[b].asked = titles /\ asker'[b].since = ratingsClock
         /\ \A t \in titles \ asker'[b].todo :
              (asker'[b].at = "left" /\ asker'[b].told = TRUE) \/ ~Expired(t, ratingsClock)
         /\ asker'[b].at = "left" => asker'[b].todo = {}
         /\ \/ claimed' = claimed /\ \A c \in Askers : c # b => asker'[c] = asker[c]
            \/ \E r \in Refreshers, claims \in SUBSET RatedTitles :
                 /\ asker[r].at = "idle" /\ claimed' = claimed \cup claims
                 /\ asker'[r] \in AskerRecord /\ asker'[r].at = "gate"
                 /\ asker'[r].asked = claims /\ asker'[r].todo = claims
                 /\ \A c \in Askers : c \notin {b, r} => asker'[c] = asker[c]
         /\ asker' \in [Askers -> AskerRecord]
<1> DEFINE now == ratingsClock
           backedOff == IsBackedOff(health, now)
           missing == {t \in titles : Expired(t, now)}
           claims == {t \in titles : Stale(t, now)} \ claimed
           asks == missing # {} /\ ~backedOff
           phase == IF asks THEN "gate" ELSE "left"
           todo == IF asks THEN missing ELSE {}
           told == missing # {} /\ backedOff
           batch == [IdleAsker EXCEPT !.at = phase, !.asked = titles, !.todo = todo,
                                      !.since = now, !.told = told]
           queued == [IdleAsker EXCEPT !.at = "gate", !.asked = claims, !.todo = claims]
<1>1. /\ asker \in [Askers -> AskerRecord] /\ b \in Askers /\ b \notin Refreshers
      /\ now \in 0 .. MaxRatingsTime /\ missing \subseteq titles /\ claims \subseteq RatedTitles
      /\ titles \subseteq RatedTitles
  BY RatingsFacts DEF RatingsTypeOK
<1>2. asker[b].at = "idle"
  BY DEF Batch
<1>3. \/ asker' = [asker EXCEPT ![b] = batch] /\ claimed' = claimed
      \/ \E r \in Refreshers : /\ asker[r].at = "idle"
                               /\ asker' = [asker EXCEPT ![b] = batch, ![r] = queued]
                               /\ claimed' = claimed \cup claims
  BY DEF Batch
<1>4. /\ phase \in {"gate", "left"} /\ todo \subseteq missing /\ told \in BOOLEAN
      /\ phase = "left" => todo = {}
      /\ todo # missing => phase = "left" /\ told = TRUE
  OBVIOUS
<1> HIDE DEF phase, todo, told
<1>5. /\ batch.at = phase /\ batch.asked = titles /\ batch.todo = todo /\ batch.since = now
      /\ batch.told = told /\ batch \in AskerRecord
  BY <1>1, <1>4, IdleAskerType DEF IdleAsker, AskerRecord
<1>6. \A t \in titles : t \notin missing => ~Expired(t, now)
  OBVIOUS
<1>7. /\ queued.at = "gate" /\ queued.asked = claims /\ queued.todo = claims
      /\ queued \in AskerRecord
  BY <1>1, IdleAskerType DEF IdleAsker, AskerRecord
<1> HIDE DEF batch, queued, claims, missing, asks, backedOff
<1>8. /\ batch.at \in {"gate", "left"} /\ batch.todo \subseteq titles
      /\ batch.at = "left" => batch.todo = {}
  BY <1>1, <1>4, <1>5
<1>9. \A t \in titles \ batch.todo : (batch.at = "left" /\ batch.told = TRUE) \/ ~Expired(t, now)
  BY <1>4, <1>5, <1>6
<1>10. CASE asker' = [asker EXCEPT ![b] = batch] /\ claimed' = claimed
  BY <1>1, <1>2, <1>5, <1>8, <1>9, <1>10
<1>11. CASE \E r \in Refreshers : /\ asker[r].at = "idle"
                                  /\ asker' = [asker EXCEPT ![b] = batch, ![r] = queued]
                                  /\ claimed' = claimed \cup claims
  <2>1. PICK r \in Refreshers : /\ asker[r].at = "idle"
                                /\ asker' = [asker EXCEPT ![b] = batch, ![r] = queued]
                                /\ claimed' = claimed \cup claims
    BY <1>11
  <2>2. r \in Askers /\ r # b
    BY <1>1, RatingsFacts
  <2>3. asker'[b] = batch /\ asker'[r] = queued /\ asker' \in [Askers -> AskerRecord]
        /\ \A c \in Askers : c \notin {b, r} => asker'[c] = asker[c]
    BY <1>1, <1>5, <1>7, <2>1, <2>2
  <2> QED
    BY <1>1, <1>2, <1>5, <1>7, <1>8, <1>9, <2>1, <2>2, <2>3
<1> QED
  BY <1>3, <1>10, <1>11

-----------------------------------------------------------------------------------
\* A title that was answered by a clock stays so: fetch times only rise.
LEMMA AnswersStay ==
  ASSUME RatingsAssumption, RatingsTypeOK, NEW t \in RatedTitles, NEW since \in Nat,
         since <= ratingsClock, fetchTime'[t] \in {fetchTime[t], ratingsClock}, ~Expired(t, since)
  PROVE  ~Expired(t, since)'
BY RatingsFacts DEF Expired, Never

LEMMA OldTitles ==
  ASSUME RatingsAssumption, RatingsTypeOK, NEW t \in RatedTitles, NEW now \in Nat
  PROVE  Expired(t, now) \/ Stale(t, now) <=> fetchTime[t] = Never \/ now - fetchTime[t] >= FreshAge
BY RatingsFacts DEF Expired, Stale, Never

\* What fetchTime may do in a step.
FetchTimesRise == \A t \in RatedTitles : fetchTime'[t] \in {fetchTime[t], ratingsClock}

LEMMA BatchKept ==
  ASSUME RatingsAssumption, RatingsTypeOK, BatchesHold, NEW b \in Batches,
         asker'[b] = asker[b], ratingsClock' \in Nat, ratingsClock' >= ratingsClock, FetchTimesRise
  PROVE  asker'[b].at # "idle" =>
           /\ asker'[b].since <= ratingsClock' /\ BatchHolds(b)'
           /\ asker'[b].at = "left" => asker'[b].todo = {}
<1> SUFFICES ASSUME asker[b].at # "idle"
             PROVE  /\ asker[b].since <= ratingsClock' /\ BatchHolds(b)'
                    /\ asker[b].at = "left" => asker[b].todo = {}
  OBVIOUS
<1>1. asker[b] \in AskerRecord /\ b \in Askers
  BY RatingsFacts DEF RatingsTypeOK
<1>2. /\ asker[b].since \in Nat /\ asker[b].since <= ratingsClock /\ BatchHolds(b)
      /\ asker[b].at = "left" => asker[b].todo = {}
      /\ asker[b].asked \subseteq RatedTitles
  BY <1>1 DEF BatchesHold, AskerRecord
<1>3. ASSUME NEW t \in asker[b].asked \ asker[b].todo, ~Expired(t, asker[b].since)
      PROVE  ~Expired(t, asker[b].since)'
  <2>1. PICK since \in Nat : since = asker[b].since /\ since = asker'[b].since
    BY <1>2
  <2>2. t \in RatedTitles /\ since <= ratingsClock /\ ~Expired(t, since)
    BY <1>2, <1>3, <2>1
  <2>3. ~Expired(t, since)'
    BY <2>2, AnswersStay DEF FetchTimesRise
  <2> QED
    BY <2>1, <2>3 DEF Expired
<1>4. BatchHolds(b)'
  BY <1>2, <1>3 DEF BatchHolds
<1> QED
  BY <1>2, <1>4, RatingsFacts

\* An asker that is done, told why or with all it waited for answered.
LEMMA LeaveKeeps ==
  ASSUME RatingsAssumption, RatingsInv, NEW a \in Askers, NEW told \in BOOLEAN,
         LeaveRefresh(a, told), asker[a].at \in {"gate", "asking"},
         ratingsClock' = ratingsClock, FetchTimesRise, fetchTime' = fetchTime \/ refreshGate = a,
         a \in Batches /\ told = FALSE
            => \A t \in asker[a].asked : ~Expired(t, asker[a].since)'
  PROVE  /\ AskersWait' /\ BatchesHold' /\ AskedIsOld' /\ ClaimedIsRefreshed'
         /\ refreshGate' \in Askers \cup {"free"} /\ claimed' \subseteq claimed
         /\ \A c \in Askers : asker'[c].todo \subseteq asker'[c].asked
<1>1. RatingsTypeOK /\ AskersWait /\ BatchesHold /\ AskedIsOld /\ ClaimedIsRefreshed
  BY DEF RatingsInv
<1>2. /\ asker' \in [Askers -> AskerRecord]
      /\ \A c \in Askers : c # a => asker'[c] = asker[c]
      /\ a \in Refreshers => asker'[a] = IdleAsker
      /\ a \in Batches => /\ asker'[a].at = "left" /\ asker'[a].todo = {} /\ asker'[a].told = told
                          /\ asker'[a].asked = asker[a].asked /\ asker'[a].since = asker[a].since
      /\ asker'[a].at # "asking" /\ asker'[a].todo \subseteq asker'[a].asked
      /\ refreshGate' \in Askers \cup {"free"}
      /\ \A c \in Askers : c # a => (refreshGate' = c <=> refreshGate = c)
      /\ claimed' \subseteq claimed
      /\ a \in Refreshers => claimed' = claimed \ asker[a].asked
  BY <1>1, LeaveShape
<1>3. AskersWait'
  BY <1>1, <1>2 DEF AskersWait
<1>4. \A c \in Askers : asker'[c].todo \subseteq asker'[c].asked
  BY <1>1, <1>2 DEF RatingsTypeOK
<1>5. AskedIsOld'
  <2> SUFFICES ASSUME NEW c \in Askers, asker'[c].at = "asking", NEW t \in asker'[c].todo
               PROVE  (Expired(t, ratingsClock) \/ Stale(t, ratingsClock))'
    BY DEF AskedIsOld
  <2>1. c # a /\ asker'[c] = asker[c] /\ refreshGate = c
    BY <1>1, <1>2 DEF AskersWait
  <2>2. fetchTime' = fetchTime
    BY <2>1
  <2>3. Expired(t, ratingsClock) \/ Stale(t, ratingsClock)
    BY <1>1, <2>1 DEF AskedIsOld
  <2> QED
    BY <2>2, <2>3 DEF Expired, Stale
<1>6. BatchesHold'
  <2> SUFFICES ASSUME NEW b \in Batches, asker'[b].at # "idle"
               PROVE  /\ asker'[b].since <= ratingsClock' /\ BatchHolds(b)'
                      /\ asker'[b].at = "left" => asker'[b].todo = {}
    BY DEF BatchesHold
  <2>1. b \in Askers /\ ratingsClock' \in Nat /\ ratingsClock' >= ratingsClock
    BY <1>1, RatingsFacts
  <2>2. CASE b # a
    BY <1>1, <1>2, <2>1, <2>2, BatchKept
  <2>3. CASE b = a
    <3>1. asker[a].since <= ratingsClock
      BY <1>1, <2>3 DEF BatchesHold
    <3>2. CASE told = TRUE
      BY <1>2, <2>3, <3>1, <3>2 DEF BatchHolds
    <3>3. CASE told = FALSE
      BY <1>2, <2>3, <3>1, <3>3 DEF BatchHolds
    <3> QED
      BY <3>2, <3>3
  <2> QED
    BY <2>2, <2>3
<1>7. ClaimedIsRefreshed'
  <2> SUFFICES ASSUME NEW t \in claimed'
               PROVE  \E r \in Refreshers : asker'[r].at # "idle" /\ t \in asker'[r].asked
    BY DEF ClaimedIsRefreshed
  <2>1. PICK r \in Refreshers : asker[r].at # "idle" /\ t \in asker[r].asked
    BY <1>1, <1>2 DEF ClaimedIsRefreshed
  <2>2. r # a /\ r \in Askers
    BY <1>1, <1>2, <2>1, RatingsFacts
  <2> QED
    BY <1>2, <2>1, <2>2
<1> QED
  BY <1>2, <1>3, <1>4, <1>5, <1>6, <1>7

\* The askers are left alone, and nothing is fetched.
LEMMA AskersKept ==
  ASSUME RatingsAssumption, RatingsInv, UNCHANGED <<asker, claimed, fetchTime, refreshGate>>,
         ratingsClock' \in Nat, ratingsClock' >= ratingsClock
  PROVE  AskersWait' /\ BatchesHold' /\ AskedIsOld' /\ ClaimedIsRefreshed'
<1>1. RatingsTypeOK /\ AskersWait /\ BatchesHold /\ AskedIsOld /\ ClaimedIsRefreshed
  BY DEF RatingsInv
<1>2. FetchTimesRise
  BY DEF FetchTimesRise
<1>3. BatchesHold'
  BY <1>1, <1>2, BatchKept DEF BatchesHold
<1>4. AskedIsOld'
  <2> SUFFICES ASSUME NEW a \in Askers, asker[a].at = "asking", NEW t \in asker[a].todo
               PROVE  (Expired(t, ratingsClock) \/ Stale(t, ratingsClock))'
    BY DEF AskedIsOld
  <2>1. t \in RatedTitles
    BY <1>1 DEF RatingsTypeOK, AskerRecord
  <2>2. fetchTime[t] = Never \/ ratingsClock - fetchTime[t] >= FreshAge
    BY <1>1, <2>1, OldTitles, RatingsFacts DEF AskedIsOld
  <2>3. fetchTime[t] = Never \/ ratingsClock' - fetchTime[t] >= FreshAge
    BY <1>1, <2>1, <2>2, RatingsFacts
  <2>4. Expired(t, ratingsClock') \/ Stale(t, ratingsClock')
    BY <1>1, <2>1, <2>3, OldTitles
  <2> QED
    BY <2>4 DEF Expired, Stale
<1> QED
  BY <1>1, <1>3, <1>4 DEF AskersWait, ClaimedIsRefreshed

-----------------------------------------------------------------------------------
LEMMA RatingsInitially == RatingsAssumption /\ RatingsInit => RatingsInv
<1> SUFFICES ASSUME RatingsAssumption, RatingsInit PROVE RatingsInv
  OBVIOUS
<1>1. \A a \in Askers : asker[a] = IdleAsker /\ asker[a].at = "idle" /\ asker[a].todo = {}
  BY IdleAskerType DEF RatingsInit, IdleAsker
<1>2. AskersWait
  BY <1>1 DEF AskersWait
<1>3. BatchesHold /\ AskedIsOld /\ ClaimedIsRefreshed
  BY <1>1 DEF BatchesHold, AskedIsOld, ClaimedIsRefreshed, RatingsInit, Askers
<1>4. RatingsTypeOK
  <2>1. /\ ratingsClock = 1 /\ MaxRatingsTime \in Nat /\ MaxRatingsTime >= 1
        /\ MaxBatches \in Nat /\ MaxAdminCalls \in Nat
    BY DEF RatingsInit, RatingsAssumption
  <2>2. NoHealth \in Healths /\ [NoHealth EXCEPT !.valid = TRUE] \in Healths
    BY IdleAskerType DEF Healths
  <2>3. asker \in [Askers -> AskerRecord] /\ \A a \in Askers : asker[a].todo \subseteq asker[a].asked
    BY <1>1, IdleAskerType DEF RatingsInit
  <2>4. fetchTime \in [RatedTitles -> 0 .. MaxRatingsTime]
    BY <2>1 DEF RatingsInit, Never
  <2>5. /\ key \in Keys \cup {NoKey} /\ health \in Healths /\ refreshGate \in Askers \cup {"free"}
        /\ claimed \subseteq RatedTitles
        /\ admin \in [at : {"idle", "validating"}, key : Keys \cup {NoKey}, previous : Healths]
    BY <2>2 DEF RatingsInit, NoAdmin
  <2> QED
    BY <2>1, <2>3, <2>4, <2>5 DEF RatingsInit, RatingsTypeOK
<1> QED
  BY <1>2, <1>3, <1>4 DEF RatingsInv

LEMMA TimeStep ==
  ASSUME RatingsAssumption, RatingsInv, TimePasses PROVE RatingsInv'
<1>1. RatingsTypeOK /\ ratingsClock' = ratingsClock + 1 /\ ratingsClock < MaxRatingsTime
      /\ UNCHANGED <<asker, claimed, fetchTime, refreshGate, key, health, admin, batches, adminCalls>>
  BY DEF RatingsInv, TimePasses, credentials, bounds
<1>2. /\ ratingsClock' \in Nat /\ ratingsClock' >= ratingsClock
      /\ ratingsClock' \in 1 .. MaxRatingsTime
  BY <1>1, RatingsFacts
<1>3. AskersWait' /\ BatchesHold' /\ AskedIsOld' /\ ClaimedIsRefreshed'
  BY <1>1, <1>2, AskersKept
<1>4. RatingsTypeOK'
  BY <1>1, <1>2 DEF RatingsTypeOK
<1> QED
  BY <1>3, <1>4 DEF RatingsInv

\* The administrator's calls disturb the key and its health only.
LEMMA AdminStep ==
  ASSUME RatingsAssumption, RatingsInv,
         \/ \E k \in Keys : BeginCredential(k)
         \/ \E outcome \in MdbListOutcomes : CredentialValidated(outcome)
         \/ CredentialFails \/ RemoveCredential
  PROVE  RatingsInv'
<1>1. RatingsTypeOK /\ UNCHANGED <<asker, claimed, fetchTime, refreshGate, ratingsClock, batches>>
  BY DEF RatingsInv, BeginCredential, CredentialValidated, CredentialFails, RemoveCredential, bounds
<1>2. AskersWait' /\ BatchesHold' /\ AskedIsOld' /\ ClaimedIsRefreshed'
  BY <1>1, AskersKept, RatingsFacts
<1> DEFINE Admins == [at : {"idle", "validating"}, key : Keys \cup {NoKey}, previous : Healths]
<1>3. /\ admin \in Admins /\ NoAdmin \in Admins /\ NoHealth \in Healths /\ health \in Healths
      /\ key \in Keys \cup {NoKey} /\ MaxAdminCalls \in Nat /\ adminCalls \in 0 .. MaxAdminCalls
  BY <1>1, IdleAskerType, RatingsFacts DEF RatingsTypeOK, NoAdmin
<1>4. /\ adminCalls' \in 0 .. MaxAdminCalls /\ key' \in Keys \cup {NoKey}
      /\ admin' \in Admins /\ health' \in Healths
  <2>1. CASE \E k \in Keys : BeginCredential(k)
    BY <1>3, <2>1 DEF BeginCredential
  <2>2. CASE \E outcome \in MdbListOutcomes : CredentialValidated(outcome)
    <3>1. PICK outcome \in MdbListOutcomes : CredentialValidated(outcome)
      BY <2>2
    <3>2. admin.previous \in Healths /\ admin.key \in Keys \cup {NoKey}
      BY <1>3
    <3>3. (admin.key = key) \in BOOLEAN
      OBVIOUS
    <3>4. AfterValidation(admin.previous, outcome, ratingsClock, admin.key = key) \in Healths
      BY <1>1, <3>2, <3>3, HealthTypes
    <3> QED
      BY <1>3, <3>1, <3>2, <3>4 DEF CredentialValidated, bounds
  <2>3. CASE CredentialFails
    BY <1>3, <2>3 DEF CredentialFails, bounds
  <2>4. CASE RemoveCredential
    BY <1>3, <2>4 DEF RemoveCredential
  <2> QED
    BY <2>1, <2>2, <2>3, <2>4
<1>5. RatingsTypeOK'
  BY <1>1, <1>4 DEF RatingsTypeOK
<1> QED
  BY <1>2, <1>5 DEF RatingsInv

LEMMA AnswerStep ==
  ASSUME RatingsAssumption, RatingsInv, NEW b \in Batches, AnswerBatch(b) PROVE RatingsInv'
<1>1. /\ RatingsTypeOK /\ AskersWait /\ BatchesHold /\ AskedIsOld /\ ClaimedIsRefreshed
      /\ asker \in [Askers -> AskerRecord] /\ b \in Askers /\ b \notin Refreshers
      /\ IdleAsker \in AskerRecord /\ IdleAsker.at = "idle" /\ IdleAsker.todo = {}
  BY RatingsFacts, IdleAskerType DEF RatingsInv, RatingsTypeOK, IdleAsker
<1>2. /\ asker' = [asker EXCEPT ![b] = IdleAsker]
      /\ UNCHANGED <<ratingsClock, fetchTime, key, health, refreshGate, claimed, admin, batches, adminCalls>>
  BY DEF AnswerBatch, credentials, bounds
<1>3. /\ asker' \in [Askers -> AskerRecord] /\ asker'[b] = IdleAsker
      /\ \A c \in Askers : c # b => asker'[c] = asker[c]
  BY <1>1, <1>2
<1>4. AskersWait' /\ AskedIsOld'
  BY <1>1, <1>2, <1>3 DEF AskersWait, AskedIsOld, Expired, Stale
<1>5. BatchesHold'
  <2>1. FetchTimesRise /\ ratingsClock' \in Nat /\ ratingsClock' >= ratingsClock
    BY <1>1, <1>2, RatingsFacts DEF FetchTimesRise
  <2> SUFFICES ASSUME NEW d \in Batches, asker'[d].at # "idle"
               PROVE  /\ asker'[d].since <= ratingsClock' /\ BatchHolds(d)'
                      /\ asker'[d].at = "left" => asker'[d].todo = {}
    BY DEF BatchesHold
  <2>2. asker'[d] = asker[d]
    BY <1>1, <1>3 DEF Askers
  <2> QED
    BY <1>1, <2>1, <2>2, BatchKept
<1>6. ClaimedIsRefreshed'
  BY <1>1, <1>2, <1>3 DEF ClaimedIsRefreshed, Askers
<1>7. RatingsTypeOK'
  <2>1. \A a \in Askers : asker'[a].todo \subseteq asker'[a].asked
    BY <1>1, <1>3 DEF RatingsTypeOK
  <2> QED
    BY <1>1, <1>2, <1>3, <2>1 DEF RatingsTypeOK
<1> QED
  BY <1>4, <1>5, <1>6, <1>7 DEF RatingsInv

LEMMA BatchStep ==
  ASSUME RatingsAssumption, RatingsInv, NEW b \in Batches, NEW titles \in SUBSET RatedTitles,
         Batch(b, titles)
  PROVE  RatingsInv'
<1>1. /\ RatingsTypeOK /\ AskersWait /\ BatchesHold /\ AskedIsOld /\ ClaimedIsRefreshed
      /\ b \in Askers /\ b \notin Refreshers /\ ratingsClock \in Nat
  BY RatingsFacts DEF RatingsInv
<1>2. /\ UNCHANGED <<ratingsClock, fetchTime, key, health, refreshGate, admin, adminCalls>>
      /\ batches' \in 0 .. MaxBatches
  <2>1. UNCHANGED <<ratingsClock, fetchTime, key, health, refreshGate, admin, adminCalls>>
        /\ batches < MaxBatches /\ batches' = batches + 1
    BY DEF Batch, credentials
  <2>2. batches \in 0 .. MaxBatches /\ MaxBatches \in Nat
    BY <1>1, RatingsFacts DEF RatingsTypeOK
  <2> QED
    BY <2>1, <2>2
<1>3. /\ asker[b].at = "idle" /\ asker'[b] \in AskerRecord
      /\ asker'[b].at \in {"gate", "left"} /\ asker'[b].todo \subseteq titles
      /\ asker'[b].asked = titles /\ asker'[b].since = ratingsClock
      /\ \A t \in titles \ asker'[b].todo :
           (asker'[b].at = "left" /\ asker'[b].told = TRUE) \/ ~Expired(t, ratingsClock)
      /\ asker'[b].at = "left" => asker'[b].todo = {}
      /\ asker' \in [Askers -> AskerRecord]
  BY <1>1, BatchShape, ZenonT(30)
<1>4. \/ claimed' = claimed /\ \A c \in Askers : c # b => asker'[c] = asker[c]
      \/ \E r \in Refreshers, claims \in SUBSET RatedTitles :
           /\ asker[r].at = "idle" /\ claimed' = claimed \cup claims
           /\ asker'[r] \in AskerRecord /\ asker'[r].at = "gate"
           /\ asker'[r].asked = claims /\ asker'[r].todo = claims
           /\ \A c \in Askers : c \notin {b, r} => asker'[c] = asker[c]
  BY <1>1, BatchShape
<1>5. /\ \A c \in Askers : \/ asker'[c] = asker[c]
                           \/ asker'[c].at \in {"gate", "left"} /\ asker'[c].todo \subseteq asker'[c].asked
      /\ \A c \in Batches : c # b => asker'[c] = asker[c]
      /\ claimed' \subseteq RatedTitles
      /\ ClaimedIsRefreshed'
  <2>1. CASE claimed' = claimed /\ \A c \in Askers : c # b => asker'[c] = asker[c]
    BY <1>1, <1>3, <2>1, RatingsFacts DEF RatingsTypeOK, ClaimedIsRefreshed
  <2>2. CASE \E r \in Refreshers, claims \in SUBSET RatedTitles :
               /\ asker[r].at = "idle" /\ claimed' = claimed \cup claims
               /\ asker'[r] \in AskerRecord /\ asker'[r].at = "gate"
               /\ asker'[r].asked = claims /\ asker'[r].todo = claims
               /\ \A c \in Askers : c \notin {b, r} => asker'[c] = asker[c]
    <3>1. PICK r \in Refreshers, claims \in SUBSET RatedTitles :
               /\ asker[r].at = "idle" /\ claimed' = claimed \cup claims
               /\ asker'[r] \in AskerRecord /\ asker'[r].at = "gate"
               /\ asker'[r].asked = claims /\ asker'[r].todo = claims
               /\ \A c \in Askers : c \notin {b, r} => asker'[c] = asker[c]
      BY <2>2
    <3>2. r \in Askers /\ r \notin Batches /\ claimed' \subseteq RatedTitles
      BY <1>1, <3>1, RatingsFacts DEF RatingsTypeOK
    <3>3. \A c \in Batches : c # b => asker'[c] = asker[c]
      BY <1>1, <3>1, <3>2, RatingsFacts
    <3>4. \A c \in Askers : \/ asker'[c] = asker[c]
                            \/ asker'[c].at \in {"gate", "left"} /\ asker'[c].todo \subseteq asker'[c].asked
      BY <1>3, <3>1
    <3>5. ClaimedIsRefreshed'
      <4> SUFFICES ASSUME NEW t \in claimed'
                   PROVE  \E s \in Refreshers : asker'[s].at # "idle" /\ t \in asker'[s].asked
        BY DEF ClaimedIsRefreshed
      <4>1. CASE t \in claims
        BY <3>1, <4>1
      <4>2. CASE t \in claimed
        <5>1. PICK s \in Refreshers : asker[s].at # "idle" /\ t \in asker[s].asked
          BY <1>1, <4>2 DEF ClaimedIsRefreshed
        <5>2. s # r /\ s # b /\ s \in Askers
          BY <1>1, <3>1, <5>1, RatingsFacts
        <5> QED
          BY <3>1, <5>1, <5>2
      <4> QED
        BY <3>1, <4>1, <4>2
    <3> QED
      BY <3>2, <3>3, <3>4, <3>5
  <2> QED
    BY <1>4, <2>1, <2>2
<1>6. AskersWait' /\ AskedIsOld'
  BY <1>1, <1>2, <1>5 DEF AskersWait, AskedIsOld, Expired, Stale
<1>7. BatchesHold'
  <2>1. FetchTimesRise /\ ratingsClock' \in Nat /\ ratingsClock' >= ratingsClock
    BY <1>1, <1>2 DEF FetchTimesRise
  <2> SUFFICES ASSUME NEW d \in Batches, asker'[d].at # "idle"
               PROVE  /\ asker'[d].since <= ratingsClock' /\ BatchHolds(d)'
                      /\ asker'[d].at = "left" => asker'[d].todo = {}
    BY DEF BatchesHold
  <2>2. CASE d # b
    BY <1>1, <1>5, <2>1, <2>2, BatchKept
  <2>3. CASE d = b
    <3>1. \A t \in titles \ asker'[b].todo :
            (asker'[b].at = "left" /\ asker'[b].told = TRUE) \/ ~Expired(t, ratingsClock)'
      BY <1>2, <1>3 DEF Expired
    <3>2. BatchHolds(b)'
      BY <1>2, <1>3, <3>1 DEF BatchHolds
    <3> QED
      BY <1>1, <1>2, <1>3, <2>3, <3>2
  <2> QED
    BY <2>2, <2>3
<1>8. RatingsTypeOK'
  <2>1. \A a \in Askers : asker'[a].todo \subseteq asker'[a].asked
    BY <1>1, <1>5 DEF RatingsTypeOK
  <2> QED
    BY <1>1, <1>2, <1>3, <1>5, <2>1 DEF RatingsTypeOK
<1> QED
  BY <1>5, <1>6, <1>7, <1>8 DEF RatingsInv

\* An asker that goes on: it asks for less than it waited for, and holds the gate.
LEMMA GoesOnAsking ==
  ASSUME RatingsAssumption, RatingsInv, NEW a \in Askers, NEW rest \in SUBSET asker[a].todo,
         NEW h \in Healths, asker[a].at \in {"gate", "asking"},
         asker' = [asker EXCEPT ![a].at = "asking", ![a].todo = rest, ![a].health = h],
         refreshGate' = a, refreshGate \in {a, "free"}, claimed' = claimed,
         ratingsClock' = ratingsClock, FetchTimesRise,
         \A t \in rest : (Expired(t, ratingsClock) \/ Stale(t, ratingsClock))',
         a \in Batches => \A t \in asker[a].todo \ rest : ~Expired(t, asker[a].since)'
  PROVE  /\ AskersWait' /\ BatchesHold' /\ AskedIsOld' /\ ClaimedIsRefreshed'
         /\ asker' \in [Askers -> AskerRecord]
         /\ \A c \in Askers : asker'[c].todo \subseteq asker'[c].asked
<1>1. /\ RatingsTypeOK /\ AskersWait /\ BatchesHold /\ AskedIsOld /\ ClaimedIsRefreshed
      /\ asker \in [Askers -> AskerRecord] /\ asker[a] \in AskerRecord
      /\ asker[a].todo \subseteq asker[a].asked
  BY DEF RatingsInv, RatingsTypeOK
<1> DEFINE n == [asker[a] EXCEPT !.at = "asking", !.todo = rest, !.health = h]
<1>2. /\ n \in AskerRecord /\ n.at = "asking" /\ n.todo = rest /\ n.asked = asker[a].asked
      /\ n.since = asker[a].since /\ n.told = asker[a].told
  BY <1>1 DEF AskerRecord
<1>3. asker' = [asker EXCEPT ![a] = n]
  BY <1>1 DEF AskerRecord
<1> HIDE DEF n
<1>4. /\ asker' \in [Askers -> AskerRecord] /\ asker'[a] = n
      /\ \A c \in Askers : c # a => asker'[c] = asker[c]
  BY <1>1, <1>2, <1>3, ZenonT(30)
<1>5. \A c \in Askers : asker'[c].todo \subseteq asker'[c].asked
  BY <1>1, <1>2, <1>4 DEF RatingsTypeOK
<1>6. \A c \in Askers : asker'[c].at = "asking" => c = a
  BY <1>1, <1>4, RatingsFacts DEF AskersWait
<1>7. AskersWait' /\ AskedIsOld'
  BY <1>2, <1>4, <1>6 DEF AskersWait, AskedIsOld
<1>8. ClaimedIsRefreshed'
  BY <1>1, <1>2, <1>4 DEF ClaimedIsRefreshed, Askers
<1>9. BatchesHold'
  <2>1. ratingsClock' \in Nat /\ ratingsClock' >= ratingsClock
    BY <1>1, RatingsFacts
  <2> SUFFICES ASSUME NEW d \in Batches, asker'[d].at # "idle"
               PROVE  /\ asker'[d].since <= ratingsClock' /\ BatchHolds(d)'
                      /\ asker'[d].at = "left" => asker'[d].todo = {}
    BY DEF BatchesHold
  <2>2. CASE d # a
    BY <1>1, <1>4, <2>1, <2>2, BatchKept DEF Askers
  <2>3. CASE d = a
    <3>1. /\ asker[a].since \in Nat /\ asker[a].since <= ratingsClock /\ BatchHolds(a)
          /\ asker[a].asked \subseteq RatedTitles
      BY <1>1, <2>3, RatingsFacts DEF BatchesHold, AskerRecord
    <3>2. ASSUME NEW t \in asker[a].asked \ asker[a].todo, ~Expired(t, asker[a].since)
          PROVE  ~Expired(t, asker[a].since)'
      <4>1. PICK since \in Nat : since = asker[a].since /\ since = asker'[a].since
        BY <1>2, <1>4, <3>1
      <4>2. t \in RatedTitles /\ since <= ratingsClock /\ ~Expired(t, since)
        BY <3>1, <3>2, <4>1
      <4>3. ~Expired(t, since)'
        BY <1>1, <4>2, AnswersStay DEF FetchTimesRise
      <4> QED
        BY <4>1, <4>3 DEF Expired
    <3>3. BatchHolds(a)'
      BY <1>2, <1>4, <2>3, <3>1, <3>2 DEF BatchHolds
    <3> QED
      BY <1>2, <1>4, <2>3, <3>1, <3>3
  <2> QED
    BY <2>2, <2>3
<1> QED
  BY <1>4, <1>5, <1>7, <1>8, <1>9

LEMMA GateStep ==
  ASSUME RatingsAssumption, RatingsInv, NEW a \in Askers, EnterGate(a) PROVE RatingsInv'
<1>1. /\ RatingsTypeOK /\ BatchesHold /\ asker \in [Askers -> AskerRecord]
      /\ asker[a] \in AskerRecord /\ asker[a].todo \subseteq asker[a].asked
      /\ asker[a].at = "gate" /\ refreshGate = "free" /\ health \in Healths
      /\ ratingsClock \in Nat
  BY RatingsFacts DEF RatingsInv, RatingsTypeOK, EnterGate
<1>2. UNCHANGED <<ratingsClock, fetchTime, key, health, admin, batches, adminCalls>> /\ FetchTimesRise
  BY DEF EnterGate, credentials, bounds, FetchTimesRise
<1>3. a \in Batches => \A t \in asker[a].todo \ Wanted(a, ratingsClock) : ~Expired(t, asker[a].since)'
  <2> SUFFICES ASSUME a \in Batches, NEW t \in asker[a].todo \ Wanted(a, ratingsClock)
               PROVE  ~Expired(t, asker[a].since)'
    OBVIOUS
  <2>1. /\ t \in RatedTitles /\ ~Expired(t, ratingsClock)
        /\ asker[a].since \in Nat /\ asker[a].since <= ratingsClock
    BY <1>1, RatingsFacts DEF Wanted, AskerRecord, BatchesHold
  <2>2. ~Expired(t, asker[a].since)
    BY <1>1, <2>1, RatingsFacts DEF Expired
  <2>3. asker'[a].since = asker[a].since
    <3>1. CASE \E told \in BOOLEAN : LeaveRefresh(a, told)
      BY <1>1, <3>1, LeaveShape
    <3>2. CASE asker' = [asker EXCEPT ![a].at = "asking", ![a].todo = Wanted(a, ratingsClock),
                                      ![a].health = health]
      BY <1>1, <3>2 DEF AskerRecord
    <3> QED
      BY <3>1, <3>2 DEF EnterGate, SaysWhy
  <2> QED
    BY <1>2, <2>2, <2>3 DEF Expired
<1>4. CASE LeaveRefresh(a, TRUE)
  <2>1. /\ AskersWait' /\ BatchesHold' /\ AskedIsOld' /\ ClaimedIsRefreshed'
        /\ refreshGate' \in Askers \cup {"free"} /\ claimed' \subseteq claimed
        /\ \A c \in Askers : asker'[c].todo \subseteq asker'[c].asked
    BY <1>1, <1>2, <1>4, LeaveKeeps
  <2>2. asker' \in [Askers -> AskerRecord]
    BY <1>1, <1>4, LeaveShape
  <2> QED
    BY <1>1, <1>2, <2>1, <2>2 DEF RatingsInv, RatingsTypeOK
<1>5. CASE Wanted(a, ratingsClock) = {} /\ LeaveRefresh(a, FALSE)
  <2>1. a \in Batches => \A t \in asker[a].asked : ~Expired(t, asker[a].since)'
    <3> SUFFICES ASSUME a \in Batches, NEW t \in asker[a].asked
                 PROVE  ~Expired(t, asker[a].since)'
      OBVIOUS
    <3>1. CASE t \in asker[a].todo
      BY <1>3, <1>5, <3>1
    <3>2. CASE t \notin asker[a].todo
      <4>1. ~Expired(t, asker[a].since)
        BY <1>1, <3>2 DEF BatchesHold, BatchHolds
      <4>2. asker'[a].since = asker[a].since
        BY <1>1, <1>5, LeaveShape
      <4> QED
        BY <1>2, <4>1, <4>2 DEF Expired
    <3> QED
      BY <3>1, <3>2
  <2>2. /\ AskersWait' /\ BatchesHold' /\ AskedIsOld' /\ ClaimedIsRefreshed'
        /\ refreshGate' \in Askers \cup {"free"} /\ claimed' \subseteq claimed
        /\ \A c \in Askers : asker'[c].todo \subseteq asker'[c].asked
    BY <1>1, <1>2, <1>5, <2>1, LeaveKeeps
  <2>3. asker' \in [Askers -> AskerRecord]
    BY <1>1, <1>5, LeaveShape
  <2> QED
    BY <1>1, <1>2, <2>2, <2>3 DEF RatingsInv, RatingsTypeOK
<1>6. CASE /\ asker' = [asker EXCEPT ![a].at = "asking", ![a].todo = Wanted(a, ratingsClock),
                                     ![a].health = health]
           /\ refreshGate' = a /\ claimed' = claimed
  <2> DEFINE rest == Wanted(a, ratingsClock)
  <2>1. rest \subseteq asker[a].todo
    BY DEF Wanted
  <2>2. \A t \in rest : (Expired(t, ratingsClock) \/ Stale(t, ratingsClock))'
    BY <1>2 DEF Wanted, Expired, Stale
  <2>3. a \in Batches => \A t \in asker[a].todo \ rest : ~Expired(t, asker[a].since)'
    BY <1>3
  <2> HIDE DEF rest
  <2>4. asker' = [asker EXCEPT ![a].at = "asking", ![a].todo = rest, ![a].health = health]
    BY <1>6 DEF rest
  <2>5. /\ AskersWait' /\ BatchesHold' /\ AskedIsOld' /\ ClaimedIsRefreshed'
        /\ asker' \in [Askers -> AskerRecord]
        /\ \A c \in Askers : asker'[c].todo \subseteq asker'[c].asked
    BY <1>1, <1>2, <1>6, <2>1, <2>2, <2>3, <2>4, GoesOnAsking
  <2> QED
    BY <1>1, <1>2, <1>6, <2>5 DEF RatingsInv, RatingsTypeOK
<1> QED
  BY <1>4, <1>5, <1>6 DEF EnterGate, SaysWhy

LEMMA GiveUpStep ==
  ASSUME RatingsAssumption, RatingsInv, NEW a \in Askers, GiveUpAsking(a) PROVE RatingsInv'
<1>1. RatingsTypeOK /\ asker[a].at \in {"gate", "asking"} /\ LeaveRefresh(a, TRUE)
  BY DEF RatingsInv, GiveUpAsking
<1>2. UNCHANGED <<ratingsClock, fetchTime, key, health, admin, batches, adminCalls>> /\ FetchTimesRise
  BY DEF GiveUpAsking, credentials, bounds, FetchTimesRise
<1>3. /\ AskersWait' /\ BatchesHold' /\ AskedIsOld' /\ ClaimedIsRefreshed'
      /\ refreshGate' \in Askers \cup {"free"} /\ claimed' \subseteq claimed
      /\ \A c \in Askers : asker'[c].todo \subseteq asker'[c].asked
  BY <1>1, <1>2, LeaveKeeps
<1>4. asker' \in [Askers -> AskerRecord]
  BY <1>1, LeaveShape
<1> QED
  BY <1>1, <1>2, <1>3, <1>4 DEF RatingsInv, RatingsTypeOK

LEMMA ChunkStep ==
  ASSUME RatingsAssumption, RatingsInv, NEW a \in Askers, NEW t \in RatedTitles,
         NEW outcome \in MdbListOutcomes, ChunkAnswered(a, t, outcome)
  PROVE  RatingsInv'
<1> DEFINE after == AfterValidation(asker[a].health, outcome, ratingsClock, TRUE)
           rest == asker[a].todo \ {t}
<1>1. /\ RatingsTypeOK /\ BatchesHold /\ AskedIsOld /\ asker \in [Askers -> AskerRecord]
      /\ asker[a] \in AskerRecord /\ asker[a].todo \subseteq asker[a].asked
      /\ asker[a].at = "asking" /\ refreshGate = a /\ t \in asker[a].todo
      /\ ratingsClock \in Nat /\ ratingsClock \in 1 .. MaxRatingsTime
      /\ fetchTime \in [RatedTitles -> 0 .. MaxRatingsTime]
  BY RatingsFacts DEF RatingsInv, RatingsTypeOK, ChunkAnswered, AskersWait
<1>2. /\ UNCHANGED <<ratingsClock, key, admin, batches, adminCalls>> /\ health' = after
      /\ fetchTime' = IF Succeeded(outcome) THEN [fetchTime EXCEPT ![t] = ratingsClock] ELSE fetchTime
      /\ \/ LeaveRefresh(a, TRUE)
         \/ Succeeded(outcome) /\ rest = {} /\ LeaveRefresh(a, FALSE)
         \/ /\ Succeeded(outcome) /\ refreshGate' = refreshGate /\ claimed' = claimed
            /\ asker' = [asker EXCEPT ![a].todo = rest, ![a].health = after]
  BY DEF ChunkAnswered, bounds
<1>3. after \in Healths
  BY <1>1, HealthTypes DEF AskerRecord
<1>4. FetchTimesRise /\ fetchTime' \in [RatedTitles -> 0 .. MaxRatingsTime]
  BY <1>1, <1>2, RatingsFacts DEF FetchTimesRise
<1>5. RatingsInv' <=> /\ AskersWait' /\ BatchesHold' /\ AskedIsOld' /\ ClaimedIsRefreshed'
                      /\ refreshGate' \in Askers \cup {"free"} /\ claimed' \subseteq RatedTitles
                      /\ asker' \in [Askers -> AskerRecord]
                      /\ \A c \in Askers : asker'[c].todo \subseteq asker'[c].asked
  BY <1>1, <1>2, <1>3, <1>4 DEF RatingsInv, RatingsTypeOK
<1> HIDE DEF after
<1>6. ASSUME Succeeded(outcome), NEW since \in Nat, since <= ratingsClock PROVE ~Expired(t, since)'
  <2>1. fetchTime'[t] = ratingsClock
    BY <1>1, <1>2, <1>6
  <2> QED
    BY <1>1, <1>6, <2>1, RatingsFacts DEF Expired, Never
<1>7. CASE LeaveRefresh(a, TRUE)
  BY <1>1, <1>2, <1>4, <1>5, <1>7, LeaveKeeps, LeaveShape DEF RatingsTypeOK
<1>8. CASE Succeeded(outcome) /\ rest = {} /\ LeaveRefresh(a, FALSE)
  <2>1. a \in Batches => \A u \in asker[a].asked : ~Expired(u, asker[a].since)'
    <3> SUFFICES ASSUME a \in Batches, NEW u \in asker[a].asked
                 PROVE  ~Expired(u, asker[a].since)'
      OBVIOUS
    <3>1. /\ asker[a].since \in Nat /\ asker[a].since <= ratingsClock /\ u \in RatedTitles
          /\ asker'[a].since = asker[a].since
      <4>1. asker[a].since \in Nat /\ u \in RatedTitles
        BY <1>1, RatingsFacts DEF AskerRecord
      <4>2. asker[a].since <= ratingsClock
        BY <1>1 DEF BatchesHold
      <4>3. asker'[a].since = asker[a].since
        BY <1>1, <1>8, LeaveShape
      <4> QED
        BY <4>1, <4>2, <4>3
    <3>2. PICK since \in Nat : since = asker[a].since /\ since = asker'[a].since
      BY <3>1
    <3>3. CASE u = t
      <4>1. ~Expired(t, since)'
        BY <1>6, <1>8, <3>1, <3>2
      <4> QED
        BY <3>2, <3>3, <4>1 DEF Expired
    <3>4. CASE u # t
      <4>1. ~Expired(u, since)
        BY <1>1, <1>8, <3>2, <3>4 DEF BatchesHold, BatchHolds
      <4>2. ~Expired(u, since)'
        BY <1>1, <1>4, <3>1, <3>2, <4>1, AnswersStay DEF FetchTimesRise
      <4> QED
        BY <3>2, <4>2 DEF Expired
    <3> QED
      BY <3>3, <3>4
  <2>2. /\ AskersWait' /\ BatchesHold' /\ AskedIsOld' /\ ClaimedIsRefreshed'
        /\ refreshGate' \in Askers \cup {"free"} /\ claimed' \subseteq claimed
        /\ \A c \in Askers : asker'[c].todo \subseteq asker'[c].asked
    BY <1>1, <1>2, <1>4, <1>8, <2>1, LeaveKeeps
  <2>3. asker' \in [Askers -> AskerRecord]
    BY <1>1, <1>8, LeaveShape
  <2> QED
    BY <1>1, <1>5, <2>2, <2>3 DEF RatingsTypeOK
<1>9. CASE /\ Succeeded(outcome) /\ refreshGate' = refreshGate /\ claimed' = claimed
           /\ asker' = [asker EXCEPT ![a].todo = rest, ![a].health = after]
  <2>1. asker' = [asker EXCEPT ![a].at = "asking", ![a].todo = rest, ![a].health = after]
    BY <1>1, <1>9 DEF AskerRecord
  <2>2. asker'[a].since = asker[a].since
    BY <1>1, <1>9 DEF AskerRecord
  <2>3. a \in Batches => \A u \in asker[a].todo \ rest : ~Expired(u, asker[a].since)'
    <3> SUFFICES ASSUME a \in Batches PROVE ~Expired(t, asker[a].since)'
      OBVIOUS
    <3>1. PICK since \in Nat : since = asker[a].since /\ since = asker'[a].since
      BY <1>1, <2>2, RatingsFacts DEF AskerRecord
    <3>2. since <= ratingsClock
      BY <1>1, <3>1 DEF BatchesHold
    <3>3. ~Expired(t, since)'
      BY <1>6, <1>9, <3>2
    <3> QED
      BY <3>1, <3>3 DEF Expired
  <2>4. \A u \in rest : (Expired(u, ratingsClock) \/ Stale(u, ratingsClock))'
    <3> SUFFICES ASSUME NEW u \in rest PROVE (Expired(u, ratingsClock) \/ Stale(u, ratingsClock))'
      OBVIOUS
    <3>1. Expired(u, ratingsClock) \/ Stale(u, ratingsClock)
      BY <1>1 DEF AskedIsOld
    <3>2. fetchTime'[u] = fetchTime[u]
      BY <1>1, <1>2
    <3> QED
      BY <1>2, <3>1, <3>2 DEF Expired, Stale
  <2>5. rest \subseteq asker[a].todo
    OBVIOUS
  <2> HIDE DEF rest
  <2>6. /\ AskersWait' /\ BatchesHold' /\ AskedIsOld' /\ ClaimedIsRefreshed'
        /\ asker' \in [Askers -> AskerRecord]
        /\ \A c \in Askers : asker'[c].todo \subseteq asker'[c].asked
    BY <1>1, <1>2, <1>3, <1>4, <1>9, <2>1, <2>3, <2>4, <2>5, GoesOnAsking
  <2> QED
    BY <1>1, <1>5, <1>9, <2>6 DEF RatingsTypeOK
<1> QED
  BY <1>2, <1>7, <1>8, <1>9

LEMMA RatingsStep ==
  ASSUME RatingsAssumption, RatingsInv, [RatingsNext]_ratingsVars PROVE RatingsInv'
<1>1. CASE UNCHANGED ratingsVars
  <2>1. UNCHANGED <<ratingsClock, fetchTime, key, health, refreshGate, asker, claimed, admin,
                    batches, adminCalls>>
    BY <1>1 DEF ratingsVars
  <2>2. ratingsClock' \in Nat /\ ratingsClock' >= ratingsClock
    BY <2>1, RatingsFacts DEF RatingsInv
  <2>3. AskersWait' /\ BatchesHold' /\ AskedIsOld' /\ ClaimedIsRefreshed'
    BY <2>1, <2>2, AskersKept
  <2> QED
    BY <2>1, <2>3 DEF RatingsInv, RatingsTypeOK
<1>2. CASE RatingsNext
  BY <1>2, TimeStep, AnswerStep, BatchStep, GateStep, GiveUpStep, ChunkStep, AdminStep
  DEF RatingsNext, AskerStep
<1> QED
  BY <1>1, <1>2

\* The clock, the fetch times, the key's health, the askers and the administrator's call
\* keep their types (RatingsService.cs, ProviderHealthPolicy.cs).
THEOREM RatingsTypes ==
  ASSUME RatingsAssumption
  PROVE  RatingsSpec => []RatingsTypeOK
<1>1. RatingsInv => RatingsTypeOK
  BY DEF RatingsInv
<1> QED
  BY <1>1, RatingsInitially, RatingsStep, PTL DEF RatingsSpec

(* However batches, background refreshes, failures, time-outs and changes of the key      *)
(* cross: every title of a batch is answered or the answer says why one is not; a title   *)
(* counts as being refreshed only while it is; and one refresh at a time asks MDBList,    *)
(* only for what stays out of date until it is answered (BatchAsync, RefreshAsync).       *)
THEOREM RatingsAreTold ==
  ASSUME RatingsAssumption
  PROVE  RatingsSpec => /\ [](AnsweredOrTold /\ ClaimedIsRefreshed /\ AskersWait /\ AskedIsOld)
                        /\ [][NotAskedTwice]_ratingsVars
<1>1. RatingsInv => AnsweredOrTold /\ ClaimedIsRefreshed /\ AskersWait /\ AskedIsOld
  BY DEF RatingsInv, AnsweredOrTold, BatchesHold, BatchHolds, Unanswered
<1>2. ASSUME RatingsInv, [RatingsNext]_ratingsVars PROVE [NotAskedTwice]_ratingsVars
  <2> SUFFICES ASSUME RatingsNext, NEW a \in Askers, asker'[a].at = "asking", asker[a].at # "asking",
                      NEW t \in asker'[a].todo
               PROVE  Expired(t, ratingsClock) \/ Stale(t, ratingsClock)
    BY <1>2 DEF NotAskedTwice
  <2>1. AskersWait /\ asker \in [Askers -> AskerRecord] /\ RatingsInv'
    BY <1>2, RatingsStep DEF RatingsInv, RatingsTypeOK
  <2>2. fetchTime' = fetchTime /\ ratingsClock' = ratingsClock
    <3>1. ~TimePasses
      BY DEF TimePasses
    <3>2. ASSUME NEW c \in Askers, NEW u \in RatedTitles, NEW outcome \in MdbListOutcomes,
                 ChunkAnswered(c, u, outcome)
          PROVE  FALSE
      <4>1. asker[c].at = "asking" /\ a # c
        BY <3>2 DEF ChunkAnswered
      <4>2. asker'[a] = asker[a]
        BY <2>1, <3>2, <4>1 DEF ChunkAnswered, LeaveRefresh
      <4> QED
        BY <4>2
    <3> QED
      BY <3>1, <3>2
      DEF RatingsNext, AskerStep, AnswerBatch, Batch, EnterGate, GiveUpAsking, BeginCredential,
          CredentialValidated, CredentialFails, RemoveCredential
  <2>3. (Expired(t, ratingsClock) \/ Stale(t, ratingsClock))'
    BY <2>1 DEF RatingsInv, AskedIsOld
  <2> QED
    BY <2>2, <2>3 DEF Expired, Stale
<1> QED
  BY <1>1, <1>2, RatingsInitially, RatingsStep, PTL DEF RatingsSpec

-----------------------------------------------------------------------------------
(* What the player does, in the pages and the cache.                                   *)
(* A page hears of everything in its order, and the cache follows the reports, for any    *)
(* number of events, stops and sign-ins (PlaybackEvents).  What a page was told and what   *)
(* is posted to it grow in one order and stay below the state that is held back (ToldInv);  *)
(* each stop is mirrored by a thread of its own, since no event is told twice              *)
(* (MirroredOnce); and a thread that has fetched knows no less than what was there when    *)
(* its reports were flushed (FetchedKnown).                                                *)

EventKinds ==
  /\ emitted \in Seq({"state", "stopped", "failed"}) /\ taken \in 0 .. Len(emitted)
  /\ pendingState \in 0 .. taken /\ deadline \in BOOLEAN
  /\ uiTasks \in Seq(Nat) /\ heard \in Seq(Nat)
  /\ StopsIn(Len(emitted)) <= MaxStops /\ reports \in 0 .. StopsIn(Len(emitted))
  /\ progress \in 0 .. reports /\ cached \in 0 .. MaxStops
  /\ mirrors \in [Stops -> [at : {"none", "flushing", "fetching", "storing"} \cup Outcomes,
                            item : 0 .. MaxStops, session : 0 .. MaxSignIns, known : 0 .. MaxStops]]
  /\ signIns \in 0 .. MaxSignIns /\ cycleAsked \in BOOLEAN

\* In this order, and none of them after `m`.
UpTo(told, tasks, m) ==
  /\ \A i, j \in DOMAIN told : i < j => told[i] < told[j]
  /\ \A i, j \in DOMAIN tasks : i < j => tasks[i] < tasks[j]
  /\ \A i \in DOMAIN told, j \in DOMAIN tasks : told[i] < tasks[j]
  /\ \A i \in DOMAIN told : told[i] \in 1 .. m
  /\ \A i \in DOMAIN tasks : tasks[i] \in 1 .. m
Among(told, tasks) == {told[i] : i \in DOMAIN told} \cup {tasks[i] : i \in DOMAIN tasks}
BeforeHeld == IF pendingState = NoState THEN taken ELSE pendingState - 1

ToldInv ==
  /\ UpTo(heard, uiTasks, BeforeHeld)
  /\ \A i \in 1 .. taken : emitted[i] # "state" => i \in Among(heard, uiTasks)
  /\ taken > 0 => pendingState = taken \/ taken \in Among(heard, uiTasks)
  /\ pendingState # NoState => deadline = TRUE
MirroredOnce ==
  \A s \in Stops : mirrors[s].at # "none" =>
    \E n \in Range(heard) : emitted[n] = "stopped" /\ s = StopsIn(n)
FetchedKnown ==
  /\ signIns > 0 => cycleAsked = TRUE
  /\ \A s \in Stops : mirrors[s].at \in {"fetching", "storing"} =>
       /\ s <= reports /\ mirrors[s].known <= progress /\ mirrors[s].session <= signIns
       /\ mirrors[s].at = "storing" => mirrors[s].known <= mirrors[s].item

EventsInv == EventKinds /\ ToldInv /\ MirroredOnce /\ FetchedKnown

-----------------------------------------------------------------------------------
\* One more task, after all that are there.
LEMMA TaskAdded ==
  ASSUME NEW told \in Seq(Nat), NEW tasks \in Seq(Nat), NEW m \in Nat, NEW n \in Nat, m < n,
         UpTo(told, tasks, m)
  PROVE  /\ Append(tasks, n) \in Seq(Nat) /\ UpTo(told, Append(tasks, n), n)
         /\ Among(told, Append(tasks, n)) = Among(told, tasks) \cup {n}
<1> DEFINE more == Append(tasks, n)
<1>1. /\ Len(tasks) \in Nat /\ DOMAIN tasks = 1 .. Len(tasks) /\ DOMAIN told = 1 .. Len(told)
      /\ Len(told) \in Nat /\ \A i \in DOMAIN tasks : tasks[i] \in Nat
  BY LenProperties
<1>2. /\ more \in Seq(Nat) /\ DOMAIN more = 1 .. Len(tasks) + 1 /\ more[Len(tasks) + 1] = n
      /\ \A i \in 1 .. Len(tasks) : more[i] = tasks[i]
  BY <1>1, AppendProperties, LenProperties
<1> HIDE DEF more
<1> DEFINE end == Len(tasks) + 1
<1>3. /\ DOMAIN more = DOMAIN tasks \cup {end} /\ end \notin DOMAIN tasks /\ more[end] = n
      /\ \A i \in DOMAIN tasks : more[i] = tasks[i] /\ ~(end < i)
      /\ ~(end < end)
  BY <1>1, <1>2
<1> HIDE DEF end
<1>4. /\ \A i \in DOMAIN told : told[i] \in 1 .. m /\ told[i] < n /\ told[i] \in 1 .. n
      /\ \A i \in DOMAIN tasks : tasks[i] \in 1 .. m /\ tasks[i] < n /\ tasks[i] \in 1 .. n
      /\ n \in 1 .. n
  BY DEF UpTo
<1>5. UpTo(told, more, n)
  <2>1. \A i, j \in DOMAIN more : i < j => more[i] < more[j]
    BY <1>3, <1>4 DEF UpTo
  <2>2. \A i \in DOMAIN told, j \in DOMAIN more : told[i] < more[j]
    BY <1>3, <1>4 DEF UpTo
  <2>3. \A i \in DOMAIN more : more[i] \in 1 .. n
    BY <1>3, <1>4
  <2> QED
    BY <1>4, <2>1, <2>2, <2>3 DEF UpTo
<1>6. {more[i] : i \in DOMAIN more} = {tasks[i] : i \in DOMAIN tasks} \cup {n}
  BY <1>3
<1>7. Among(told, more) = Among(told, tasks) \cup {n}
  BY <1>6, Zenon DEF Among
<1> QED
  BY <1>2, <1>5, <1>7 DEF more

LEMMA UpToMore ==
  ASSUME NEW told \in Seq(Nat), NEW tasks \in Seq(Nat), NEW m \in Nat, NEW n \in Nat, m <= n,
         UpTo(told, tasks, m)
  PROVE  UpTo(told, tasks, n)
BY DEF UpTo

\* The first task is told.
LEMMA TaskTold ==
  ASSUME NEW told \in Seq(Nat), NEW tasks \in Seq(Nat), NEW m \in Nat, tasks # << >>,
         UpTo(told, tasks, m)
  PROVE  /\ Append(told, Head(tasks)) \in Seq(Nat) /\ Tail(tasks) \in Seq(Nat)
         /\ UpTo(Append(told, Head(tasks)), Tail(tasks), m)
         /\ Among(Append(told, Head(tasks)), Tail(tasks)) = Among(told, tasks)
         /\ Head(tasks) \in 1 .. m /\ \A i \in DOMAIN told : told[i] < Head(tasks)
         /\ \A i \in DOMAIN told : i \in DOMAIN Append(told, Head(tasks))
                                   /\ Append(told, Head(tasks))[i] = told[i]
         /\ \E i \in DOMAIN Append(told, Head(tasks)) : Append(told, Head(tasks))[i] = Head(tasks)
<1> DEFINE n == Head(tasks)
           now == Append(told, n)
           rest == Tail(tasks)
           end == Len(told) + 1
<1>1. /\ Len(tasks) \in Nat \ {0} /\ DOMAIN tasks = 1 .. Len(tasks) /\ n = tasks[1] /\ n \in Nat
      /\ Len(told) \in Nat /\ DOMAIN told = 1 .. Len(told) /\ 1 \in DOMAIN tasks
  BY LenProperties, EmptySeq
<1>2. /\ rest \in Seq(Nat) /\ DOMAIN rest = 1 .. Len(tasks) - 1
      /\ \A i \in 1 .. Len(tasks) - 1 : rest[i] = tasks[i + 1]
  BY <1>1, HeadTailProperties, LenProperties
<1>3. /\ now \in Seq(Nat) /\ DOMAIN now = 1 .. end /\ now[end] = n
      /\ \A i \in 1 .. Len(told) : now[i] = told[i]
  BY <1>1, AppendProperties, LenProperties
<1> HIDE DEF n, now, rest
<1>4. /\ DOMAIN now = DOMAIN told \cup {end} /\ end \notin DOMAIN told
      /\ \A i \in DOMAIN told : now[i] = told[i] /\ i < end
  BY <1>1, <1>3
<1> HIDE DEF end
<1>5. /\ \A i \in DOMAIN rest : i + 1 \in DOMAIN tasks /\ rest[i] = tasks[i + 1] /\ 1 < i + 1 /\ i \in Nat
  BY <1>1, <1>2, SMTT(30)
<1>6. n \in 1 .. m /\ \A i \in DOMAIN told : told[i] < n
  BY <1>1 DEF UpTo
<1>7. UpTo(now, rest, m)
  <2>1. \A i, j \in DOMAIN now : i < j => now[i] < now[j]
    <3>1. \A i \in DOMAIN told : ~(end < i)
      BY <1>1, <1>4 DEF end
    <3>2. ~(end < end)
      BY <1>1 DEF end
    <3> QED
      BY <1>3, <1>4, <1>6, <3>1, <3>2 DEF UpTo
  <2>2. \A i, j \in DOMAIN rest : i < j => rest[i] < rest[j]
    <3>1. ASSUME NEW i \in DOMAIN rest, NEW j \in DOMAIN rest, i < j PROVE rest[i] < rest[j]
      <4>1. i + 1 < j + 1
        BY <1>5, <3>1
      <4> QED
        BY <1>5, <4>1 DEF UpTo
    <3> QED
      BY <3>1
  <2>3. \A j \in DOMAIN rest : n < rest[j]
    BY <1>1, <1>5 DEF UpTo
  <2>4. \A i \in DOMAIN now, j \in DOMAIN rest : now[i] < rest[j]
    BY <1>3, <1>4, <1>5, <2>3 DEF UpTo
  <2>5. /\ \A i \in DOMAIN now : now[i] \in 1 .. m
        /\ \A i \in DOMAIN rest : rest[i] \in 1 .. m
    BY <1>3, <1>4, <1>5, <1>6 DEF UpTo
  <2> QED
    BY <2>1, <2>2, <2>4, <2>5 DEF UpTo
<1>8. Among(now, rest) = Among(told, tasks)
  <2>1. ASSUME NEW i \in DOMAIN tasks PROVE tasks[i] = n \/ \E j \in DOMAIN rest : rest[j] = tasks[i]
    <3>1. CASE i = 1
      BY <1>1, <3>1
    <3>2. CASE i # 1
      <4>1. i - 1 \in DOMAIN rest /\ rest[i - 1] = tasks[(i - 1) + 1] /\ (i - 1) + 1 = i
        BY <1>1, <1>2, <3>2
      <4> QED
        BY <4>1
    <3> QED
      BY <3>1, <3>2
  <2>2. \A i \in DOMAIN rest : \E j \in DOMAIN tasks : tasks[j] = rest[i]
    BY <1>5
  <2>3. {now[i] : i \in DOMAIN now} = {told[i] : i \in DOMAIN told} \cup {n}
    <3>1. ASSUME NEW i \in DOMAIN now PROVE now[i] = n \/ \E j \in DOMAIN told : told[j] = now[i]
      BY <1>3, <1>4, <3>1
    <3>2. ASSUME NEW i \in DOMAIN told PROVE \E j \in DOMAIN now : now[j] = told[i]
      BY <1>4, <3>2
    <3>3. \E j \in DOMAIN now : now[j] = n
      BY <1>3, <1>4
    <3> QED
      BY ONLY <3>1, <3>2, <3>3
  <2>4. {tasks[i] : i \in DOMAIN tasks} = {n} \cup {rest[i] : i \in DOMAIN rest}
    <3>1. \E j \in DOMAIN tasks : tasks[j] = n
      BY <1>1
    <3> QED
      BY ONLY <2>1, <2>2, <3>1
  <2> QED
    BY <2>3, <2>4 DEF Among
<1> QED
  BY <1>2, <1>3, <1>4, <1>6, <1>7, <1>8 DEF n, now, rest

\* The stops among the first events.
LEMMA StopsCounted ==
  ASSUME emitted \in Seq({"state", "stopped", "failed"}), NEW n \in Nat
  PROVE  /\ StopsIn(n) \in Nat /\ IsFiniteSet({i \in 1 .. n : emitted[i] = "stopped"})
         /\ StopsIn(0) = 0
         /\ StopsIn(n + 1) = StopsIn(n) + (IF emitted[n + 1] = "stopped" THEN 1 ELSE 0)
         /\ \A m \in 0 .. n : StopsIn(m) <= StopsIn(n)
<1> DEFINE S(k) == {i \in 1 .. k : emitted[i] = "stopped"}
<1>1. \A k \in Nat : IsFiniteSet(S(k))
  <2>1. ASSUME NEW k \in Nat PROVE IsFiniteSet(S(k))
    <3>1. IsFiniteSet(1 .. k) /\ S(k) \subseteq 1 .. k
      BY FS_Interval
    <3> QED
      BY <3>1, FS_Subset
  <2> QED
    BY <2>1
<1>2. StopsIn(n) \in Nat
  BY <1>1, FS_CardinalityType DEF StopsIn
<1>3. StopsIn(0) = 0
  <2>1. S(0) = {}
    OBVIOUS
  <2> QED
    BY <2>1, FS_EmptySet DEF StopsIn
<1>4. StopsIn(n + 1) = StopsIn(n) + (IF emitted[n + 1] = "stopped" THEN 1 ELSE 0)
  <2>1. CASE emitted[n + 1] = "stopped"
    <3>1. S(n + 1) = S(n) \cup {n + 1} /\ n + 1 \notin S(n)
      BY <2>1
    <3> HIDE DEF S
    <3>2. Cardinality(S(n) \cup {n + 1}) = Cardinality(S(n)) + 1
      BY <1>1, <3>1, FS_AddElement
    <3> QED
      BY <2>1, <3>1, <3>2 DEF StopsIn, S
  <2>2. CASE emitted[n + 1] # "stopped"
    <3>1. S(n + 1) = S(n)
      BY <2>2
    <3>2. StopsIn(n + 1) = StopsIn(n)
      BY <3>1 DEF StopsIn
    <3> QED
      BY <1>2, <2>2, <3>2
  <2> QED
    BY <2>1, <2>2
<1>5. ASSUME NEW m \in 0 .. n PROVE StopsIn(m) <= StopsIn(n)
  <2>1. S(m) \subseteq S(n)
    OBVIOUS
  <2> QED
    BY <1>1, <2>1, FS_Subset DEF StopsIn
<1> QED
  BY <1>1, <1>2, <1>3, <1>4, <1>5

LEMMA NarrowSeq ==
  ASSUME NEW T, NEW q \in Seq(Nat), \A i \in DOMAIN q : q[i] \in T
  PROVE  q \in Seq(T)
<1>1. q \in [1 .. Len(q) -> Nat] /\ Len(q) \in Nat /\ DOMAIN q = 1 .. Len(q)
  BY LenProperties
<1>2. q \in [1 .. Len(q) -> T]
  BY <1>1
<1> QED
  BY <1>1, <1>2, SeqDef

LEMMA EventNumbers ==
  ASSUME EventsAssumption, EventKinds
  PROVE  /\ Len(emitted) \in Nat /\ taken \in Nat /\ taken <= Len(emitted) /\ pendingState \in Nat
         /\ pendingState <= taken /\ BeforeHeld \in Nat /\ BeforeHeld <= taken
         /\ StopsIn(Len(emitted)) \in Nat /\ reports \in Nat /\ progress \in Nat /\ signIns \in Nat
         /\ reports <= MaxStops /\ progress <= reports /\ signIns <= MaxSignIns
         /\ MaxStops \in Nat /\ MaxSignIns \in Nat
<1>1. Len(emitted) \in Nat /\ emitted \in Seq({"state", "stopped", "failed"})
  BY LenProperties DEF EventKinds
<1>2. StopsIn(Len(emitted)) \in Nat
  BY <1>1, StopsCounted
<1> QED
  BY <1>1, <1>2 DEF EventKinds, EventsAssumption, BeforeHeld, NoState

LEMMA EventsTruth ==
  ASSUME EventsAssumption, EventsInv
  PROVE  EventsTypeOK /\ PageFollowsPlayer
<1> USE DEF EventsInv
<1>1. /\ taken \in Nat /\ BeforeHeld \in Nat /\ BeforeHeld <= taken /\ reports \in 0 .. MaxStops
      /\ progress \in 0 .. MaxStops
  BY EventNumbers
<1>2. heard \in Seq(Nat) /\ uiTasks \in Seq(Nat)
  BY DEF EventKinds
<1>3. /\ \A i \in DOMAIN heard : heard[i] \in 1 .. taken
      /\ \A i \in DOMAIN uiTasks : uiTasks[i] \in 1 .. taken
  BY <1>1 DEF ToldInv, UpTo
<1>4. EventsTypeOK
  <2>1. heard \in Seq(1 .. taken) /\ uiTasks \in Seq(1 .. taken)
    BY <1>2, <1>3, NarrowSeq
  <2> QED
    BY <1>1, <2>1 DEF EventKinds, EventsTypeOK
<1> DEFINE told == heard \o uiTasks
           h == Len(heard)
           u == Len(uiTasks)
<1>5. /\ h \in Nat /\ u \in Nat /\ Len(told) = h + u /\ DOMAIN told = 1 .. h + u
      /\ DOMAIN heard = 1 .. h /\ DOMAIN uiTasks = 1 .. u
      /\ \A i \in 1 .. h + u : told[i] = IF i <= h THEN heard[i] ELSE uiTasks[i - h]
  <2>1. told \in Seq(Nat) /\ Len(told) = h + u
        /\ \A i \in 1 .. h + u : told[i] = IF i <= h THEN heard[i] ELSE uiTasks[i - h]
    BY <1>2, ConcatProperties
  <2> QED
    BY <1>2, <2>1, LenProperties
<1> HIDE DEF told, h, u
<1>6. ASSUME NEW n \in Among(heard, uiTasks) PROVE \E k \in DOMAIN told : told[k] = n
  <2>1. CASE \E i \in DOMAIN heard : heard[i] = n
    <3>1. PICK i \in 1 .. h : heard[i] = n
      BY <1>5, <2>1
    <3>2. i \in 1 .. h + u /\ i <= h
      BY <1>5
    <3> QED
      BY <1>5, <3>1, <3>2
  <2>2. CASE \E i \in DOMAIN uiTasks : uiTasks[i] = n
    <3>1. PICK i \in 1 .. u : uiTasks[i] = n
      BY <1>5, <2>2
    <3>2. h + i \in 1 .. h + u /\ ~(h + i <= h) /\ (h + i) - h = i
      BY <1>5
    <3> QED
      BY <1>5, <3>1, <3>2
  <2> QED
    BY <2>1, <2>2 DEF Among
<1>7. ASSUME NEW i \in DOMAIN told, NEW j \in DOMAIN told, i < j PROVE told[i] < told[j]
  <2>1. CASE j <= h
    BY <1>5, <1>7, <2>1 DEF ToldInv, UpTo
  <2>2. CASE i <= h /\ ~(j <= h)
    <3>1. told[i] = heard[i] /\ told[j] = uiTasks[j - h] /\ i \in DOMAIN heard /\ j - h \in DOMAIN uiTasks
      BY <1>5, <2>2
    <3> QED
      BY <3>1 DEF ToldInv, UpTo
  <2>3. CASE ~(i <= h)
    <3>1. /\ told[i] = uiTasks[i - h] /\ told[j] = uiTasks[j - h] /\ i - h < j - h
          /\ i - h \in DOMAIN uiTasks /\ j - h \in DOMAIN uiTasks
      BY <1>5, <1>7, <2>3
    <3> QED
      BY <3>1 DEF ToldInv, UpTo
  <2> QED
    BY <1>5, <1>7, <2>1, <2>2, <2>3
<1>8. ASSUME NEW i \in DOMAIN told PROVE told[i] \in 1 .. taken
  <2>1. CASE i <= h
    BY <1>3, <1>5, <2>1
  <2>2. CASE ~(i <= h)
    <3>1. told[i] = uiTasks[i - h] /\ i - h \in DOMAIN uiTasks
      BY <1>5, <2>2
    <3> QED
      BY <1>3, <3>1
  <2> QED
    BY <2>1, <2>2
<1>9. ASSUME taken > 0, pendingState # taken PROVE told[Len(told)] = taken
  <2>1. PICK k \in DOMAIN told : told[k] = taken
    BY <1>6, <1>9 DEF ToldInv
  <2>2. ~(k < Len(told))
    <3>1. Len(told) \in DOMAIN told
      BY <1>5, <2>1
    <3>2. told[Len(told)] \in 1 .. taken
      BY <1>8, <3>1
    <3> QED
      BY <1>1, <1>7, <2>1, <3>1, <3>2
  <2> QED
    BY <1>5, <2>1, <2>2
<1>10. \A i, j \in DOMAIN heard : i < j => heard[i] < heard[j]
  BY DEF ToldInv, UpTo
<1>11. pendingState # NoState => deadline
  BY DEF ToldInv
<1>12. \A i \in 1 .. taken : emitted[i] # "state" => \E k \in DOMAIN told : told[k] = i
  BY <1>6 DEF ToldInv
<1> QED
  BY <1>4, <1>9, <1>10, <1>11, <1>12 DEF PageFollowsPlayer, told

LEMMA EventsInitially ==
  ASSUME EventsAssumption, EventsInit
  PROVE  EventsInv
<1>1. /\ emitted = << >> /\ taken = 0 /\ pendingState = NoState /\ deadline = FALSE
      /\ uiTasks = << >> /\ heard = << >> /\ reports = 0 /\ progress = 0 /\ cached = 0
      /\ mirrors = [s \in Stops |-> NoMirror] /\ signIns = 0 /\ cycleAsked = FALSE
  BY DEF EventsInit
<1>2. emitted \in Seq({"state", "stopped", "failed"}) /\ uiTasks \in Seq(Nat) /\ heard \in Seq(Nat)
      /\ Len(emitted) = 0
  BY <1>1, EmptySeq
<1>3. StopsIn(0) = 0
  BY <1>2, StopsCounted
<1>4. /\ 0 \in 0 .. MaxStops /\ 0 \in 0 .. MaxSignIns /\ 0 <= MaxStops
  BY DEF EventsAssumption
<1>5. mirrors \in [Stops -> [at : {"none", "flushing", "fetching", "storing"} \cup Outcomes,
                             item : 0 .. MaxStops, session : 0 .. MaxSignIns, known : 0 .. MaxStops]]
  BY <1>1, <1>4 DEF NoMirror
<1>6. EventKinds
  <2>1. StopsIn(Len(emitted)) = 0 /\ 0 \in 0 .. 0
    BY <1>2, <1>3
  <2>2. taken \in 0 .. Len(emitted) /\ pendingState \in 0 .. taken
    BY <1>1, <1>2 DEF NoState
  <2>3. progress \in 0 .. reports /\ reports \in 0 .. StopsIn(Len(emitted))
    BY <1>1, <2>1
  <2> QED
    BY <1>1, <1>2, <1>4, <1>5, <2>1, <2>2, <2>3 DEF EventKinds
<1>7. DOMAIN heard = {} /\ DOMAIN uiTasks = {}
  BY <1>1
<1>8. ToldInv
  BY <1>1, <1>7 DEF ToldInv, UpTo
<1>9. MirroredOnce /\ FetchedKnown
  BY <1>1 DEF MirroredOnce, FetchedKnown, NoMirror
<1> QED
  BY <1>6, <1>8, <1>9 DEF EventsInv

\* The player sends: what was sent before stays.
LEMMA EventSent ==
  ASSUME EventsAssumption, EventsInv, NEW kind \in {"state", "stopped", "failed"}, PlayerSends(kind)
  PROVE  EventsInv'
<1> DEFINE end == Len(emitted) + 1
<1>1. /\ emitted' = Append(emitted, kind)
      /\ kind = "stopped" => StopsIn(Len(emitted)) < MaxStops
      /\ UNCHANGED <<taken, pendingState, deadline, uiTasks, heard, reports, progress, cached, signIns,
                     cycleAsked, mirrors>>
  BY DEF PlayerSends, library
<1>2. emitted \in Seq({"state", "stopped", "failed"}) /\ Len(emitted) \in Nat /\ taken <= Len(emitted)
      /\ taken \in Nat /\ reports \in Nat /\ StopsIn(Len(emitted)) \in Nat /\ StopsIn(Len(emitted)) <= MaxStops
      /\ reports <= StopsIn(Len(emitted)) /\ MaxStops \in Nat
  BY EventNumbers DEF EventsInv, EventKinds
<1>3. /\ emitted' \in Seq({"state", "stopped", "failed"}) /\ Len(emitted') = end
      /\ emitted'[end] = kind /\ \A i \in 1 .. Len(emitted) : emitted'[i] = emitted[i]
  BY <1>1, <1>2, AppendProperties
<1>4. \A n \in 0 .. Len(emitted) : StopsIn(n)' = StopsIn(n)
  <2>1. ASSUME NEW n \in 0 .. Len(emitted)
        PROVE  {i \in 1 .. n : emitted'[i] = "stopped"} = {i \in 1 .. n : emitted[i] = "stopped"}
    BY <1>2, <1>3
  <2> QED
    BY <2>1 DEF StopsIn
<1>5. ASSUME NEW n, n = end
      PROVE  /\ StopsIn(n)' \in Nat /\ StopsIn(n)' <= MaxStops /\ StopsIn(Len(emitted)) <= StopsIn(n)'
  <2> DEFINE S == {i \in 1 .. Len(emitted) : emitted[i] = "stopped"}
             T == {i \in 1 .. n : emitted'[i] = "stopped"}
  <2>1. IsFiniteSet(S) /\ Cardinality(S) = StopsIn(Len(emitted))
    BY <1>2, StopsCounted DEF StopsIn
  <2>2. StopsIn(n)' = Cardinality(T)
    BY DEF StopsIn
  <2>3. CASE kind = "stopped"
    <3>1. T = S \cup {end} /\ end \notin S
      BY <1>2, <1>3, <1>5, <2>3
    <3> HIDE DEF S, T
    <3>2. Cardinality(T) = Cardinality(S) + 1
      BY <2>1, <3>1, FS_AddElement
    <3> QED
      BY <1>1, <1>2, <2>1, <2>2, <2>3, <3>2
  <2>4. CASE kind # "stopped"
    <3>1. T = S
      BY <1>2, <1>3, <1>5, <2>4
    <3> QED
      <4> HIDE DEF S, T
      <4> QED
        BY <1>2, <2>1, <2>2, <3>1
  <2> QED
    BY <2>3, <2>4
<1>6. EventKinds'
  <2>1. StopsIn(Len(emitted))' \in Nat /\ StopsIn(Len(emitted))' <= MaxStops
        /\ StopsIn(Len(emitted)) <= StopsIn(Len(emitted))'
    <3>1. ASSUME NEW n, n = Len(emitted')
          PROVE  StopsIn(n)' \in Nat /\ StopsIn(n)' <= MaxStops /\ StopsIn(Len(emitted)) <= StopsIn(n)'
      BY <1>3, <1>5, <3>1
    <3>2. StopsIn(Len(emitted))' = Cardinality({i \in 1 .. Len(emitted') : emitted'[i] = "stopped"})
      BY DEF StopsIn
    <3> QED
      BY <3>1, <3>2 DEF StopsIn
  <2>2. taken' \in 0 .. Len(emitted') /\ reports' \in 0 .. StopsIn(Len(emitted))'
    BY <1>1, <1>2, <1>3, <2>1
  <2> QED
    BY <1>1, <1>3, <2>1, <2>2 DEF EventsInv, EventKinds
<1>7. BeforeHeld' = BeforeHeld /\ \A i \in 1 .. taken : emitted'[i] = emitted[i]
  BY <1>1, <1>2, <1>3 DEF BeforeHeld
<1>8. ToldInv'
  BY <1>1, <1>7 DEF EventsInv, ToldInv
<1>9. MirroredOnce'
  <2>1. ASSUME NEW k \in DOMAIN heard PROVE heard[k] \in 1 .. taken
    <3>1. BeforeHeld \in Nat /\ BeforeHeld <= taken
      BY EventNumbers DEF EventsInv
    <3> QED
      BY <1>2, <3>1 DEF EventsInv, ToldInv, UpTo
  <2>2. Range(heard)' = Range(heard)
        /\ \A n \in Range(heard) : emitted'[n] = emitted[n] /\ StopsIn(n)' = StopsIn(n)
    <3>1. \A n \in Range(heard) : n \in 1 .. taken
      BY <2>1 DEF Range
    <3> QED
      BY <1>1, <1>2, <1>3, <1>4, <3>1 DEF Range
  <2> QED
    BY <1>1, <2>2 DEF EventsInv, MirroredOnce
<1>10. FetchedKnown'
  BY <1>1 DEF EventsInv, FetchedKnown
<1> QED
  BY <1>6, <1>8, <1>9, <1>10 DEF EventsInv

\* A step that leaves what was sent, what was told and the mirrors' beginnings alone.
LEMMA BridgeOnly ==
  ASSUME EventsAssumption, EventsInv,
         UNCHANGED <<emitted, heard, reports, progress, cached, signIns, cycleAsked, mirrors>>,
         taken' \in 0 .. Len(emitted), pendingState' \in 0 .. taken', deadline' \in BOOLEAN,
         uiTasks' \in Seq(Nat), ToldInv'
  PROVE  EventsInv'
<1>1. StopsIn(Len(emitted))' = StopsIn(Len(emitted)) /\ \A n : StopsIn(n)' = StopsIn(n)
  BY DEF StopsIn
<1>2. EventKinds'
  BY <1>1 DEF EventsInv, EventKinds
<1>3. MirroredOnce' /\ FetchedKnown'
  <2>1. Range(heard)' = Range(heard) /\ \A n \in Range(heard) : StopsIn(n)' = StopsIn(n)
    BY DEF StopsIn, Range
  <2> QED
    BY <2>1 DEF EventsInv, MirroredOnce, FetchedKnown
<1> QED
  BY <1>2, <1>3 DEF EventsInv

LEMMA BridgeStep ==
  ASSUME EventsAssumption, EventsInv, BridgeTakesState \/ BridgeTakesOther \/ DeadlinePassed
  PROVE  EventsInv'
<1>1. /\ Len(emitted) \in Nat /\ taken \in Nat /\ taken <= Len(emitted) /\ pendingState \in Nat
      /\ pendingState <= taken /\ BeforeHeld \in Nat /\ BeforeHeld <= taken
      /\ uiTasks \in Seq(Nat) /\ heard \in Seq(Nat) /\ UpTo(heard, uiTasks, BeforeHeld)
      /\ \A i \in 1 .. taken : emitted[i] # "state" => i \in Among(heard, uiTasks)
      /\ taken > 0 => pendingState = taken \/ taken \in Among(heard, uiTasks)
  BY EventNumbers DEF EventsInv, EventKinds, ToldInv
\* The state that is held back, if any, is posted.
<1> DEFINE q == IF pendingState = NoState THEN uiTasks ELSE uiTasks \o <<pendingState>>
<1>2. /\ q \in Seq(Nat) /\ UpTo(heard, q, taken)
      /\ Among(heard, uiTasks) \subseteq Among(heard, q)
      /\ pendingState # NoState => pendingState \in Among(heard, q)
  <2>1. CASE pendingState = NoState
    BY <1>1, <2>1 DEF BeforeHeld
  <2>2. CASE pendingState # NoState
    <3>1. BeforeHeld < pendingState
      BY <1>1, <2>2 DEF BeforeHeld
    <3>2. /\ q \in Seq(Nat) /\ UpTo(heard, q, pendingState)
          /\ Among(heard, q) = Among(heard, uiTasks) \cup {pendingState}
      <4>1. q = Append(uiTasks, pendingState)
        BY <1>1, <2>2
      <4> HIDE DEF q
      <4> QED
        BY <1>1, <3>1, <4>1, TaskAdded
    <3>3. UpTo(heard, q, taken)
      BY <1>1, <3>2, UpToMore
    <3> QED
      BY <3>2, <3>3
  <2> QED
    BY <2>1, <2>2
<1> HIDE DEF q
<1>3. CASE BridgeTakesState
  <2>1. /\ taken < Len(emitted) /\ emitted[taken + 1] = "state" /\ taken' = taken + 1
        /\ pendingState' = taken + 1 /\ deadline' = TRUE
        /\ UNCHANGED <<emitted, uiTasks, heard, reports, progress, cached, signIns, cycleAsked, mirrors>>
    BY <1>3 DEF BridgeTakesState, library
  <2>2. BeforeHeld' = taken /\ UpTo(heard, uiTasks, taken)
    BY <1>1, <2>1, UpToMore DEF BeforeHeld, NoState
  <2>3. \A i \in 1 .. taken' : emitted'[i] # "state" => i \in Among(heard, uiTasks)
    BY <1>1, <2>1, SMTT(30)
  <2>4. ToldInv'
    BY <2>1, <2>2, <2>3 DEF ToldInv
  <2>5. taken' \in 0 .. Len(emitted) /\ pendingState' \in 0 .. taken'
    BY <1>1, <2>1
  <2> QED
    BY <1>1, <2>1, <2>4, <2>5, BridgeOnly
<1>4. CASE BridgeTakesOther
  <2>1. /\ taken < Len(emitted) /\ taken' = taken + 1 /\ deadline' = FALSE
        /\ uiTasks' = uiTasks \o HeldBack \o <<taken + 1>> /\ pendingState' = NoState
        /\ UNCHANGED <<emitted, heard, reports, progress, cached, signIns, cycleAsked, mirrors>>
    BY <1>4 DEF BridgeTakesOther, HeldBack, library
  <2>2. uiTasks \o HeldBack = q
    <3>1. uiTasks \o << >> = uiTasks
      BY <1>1, ConcatSimplifications
    <3> QED
      BY <3>1 DEF HeldBack, q
  <2>3. /\ uiTasks' \in Seq(Nat) /\ UpTo(heard, uiTasks', taken + 1)
        /\ Among(heard, uiTasks') = Among(heard, q) \cup {taken + 1}
    <3>1. taken + 1 \in Nat /\ taken < taken + 1 /\ uiTasks' = Append(q, taken + 1)
      BY <1>1, <1>2, <2>1, <2>2
    <3> QED
      BY <1>1, <1>2, <3>1, TaskAdded
  <2>4. BeforeHeld' = taken + 1
    BY <2>1 DEF BeforeHeld
  <2>5. \A i \in 1 .. taken' : emitted'[i] # "state" => i \in Among(heard, uiTasks')
    <3>1. \A i \in 1 .. taken' : i \in 1 .. taken \/ i = taken + 1
      BY <1>1, <2>1
    <3> HIDE DEF Among
    <3> QED
      BY <1>1, <1>2, <2>1, <2>3, <3>1, Zenon
  <2>6. ToldInv'
    BY <2>1, <2>3, <2>4, <2>5 DEF ToldInv
  <2>7. taken' \in 0 .. Len(emitted) /\ pendingState' \in 0 .. taken'
    BY <1>1, <2>1 DEF NoState
  <2> QED
    BY <2>1, <2>3, <2>6, <2>7, BridgeOnly
<1>5. CASE DeadlinePassed
  <2>1. /\ deadline' = FALSE /\ pendingState' = NoState /\ taken' = taken
        /\ uiTasks' = uiTasks \o (IF pendingState = NoState THEN << >> ELSE <<pendingState>>)
        /\ UNCHANGED <<emitted, heard, reports, progress, cached, signIns, cycleAsked, mirrors>>
    BY <1>5 DEF DeadlinePassed, library
  <2>2. uiTasks' = q
    <3>1. uiTasks \o << >> = uiTasks
      BY <1>1, ConcatSimplifications
    <3> QED
      BY <2>1, <3>1 DEF q
  <2>3. BeforeHeld' = taken
    BY <2>1 DEF BeforeHeld
  <2>4. taken > 0 => taken \in Among(heard, q)
    BY <1>1, <1>2 DEF NoState
  <2>5. ToldInv'
    BY <1>1, <1>2, <2>1, <2>2, <2>3, <2>4 DEF ToldInv
  <2>6. taken' \in 0 .. Len(emitted) /\ pendingState' \in 0 .. taken'
    BY <1>1, <2>1 DEF NoState
  <2> QED
    BY <1>2, <2>1, <2>2, <2>5, <2>6, BridgeOnly
<1> QED
  BY <1>3, <1>4, <1>5

\* The page is told of the next event; a stop gets a thread of its own.
LEMMA Dispatched ==
  ASSUME EventsAssumption, EventsInv, NEW started \in BOOLEAN, DispatchPlaybackEvent(started)
  PROVE  /\ EventsInv' /\ cycleAsked' = cycleAsked
         /\ \A s \in Stops : mirrors'[s].at # mirrors[s].at => mirrors[s].at = "none"
         /\ \A s \in Stops : mirrors'[s].at = "refreshed" => mirrors[s].at = "refreshed"
<1> DEFINE n == Head(uiTasks)
           s == StopsIn(n)
<1>1. /\ uiTasks # << >> /\ uiTasks' = Tail(uiTasks) /\ heard' = Append(heard, n)
      /\ mirrors' = IF emitted[n] # "stopped" THEN mirrors
                    ELSE [mirrors EXCEPT ![s].at = IF started THEN "flushing" ELSE "deferred"]
      /\ UNCHANGED <<emitted, taken, pendingState, deadline, reports, progress, cached, signIns,
                     cycleAsked>>
  BY DEF DispatchPlaybackEvent, bridge, library
<1>2. /\ taken \in Nat /\ taken <= Len(emitted) /\ BeforeHeld \in Nat /\ BeforeHeld <= taken
      /\ heard \in Seq(Nat) /\ uiTasks \in Seq(Nat) /\ UpTo(heard, uiTasks, BeforeHeld)
      /\ emitted \in Seq({"state", "stopped", "failed"}) /\ Len(emitted) \in Nat
      /\ StopsIn(Len(emitted)) <= MaxStops /\ MaxStops \in Nat /\ StopsIn(Len(emitted)) \in Nat
  BY EventNumbers DEF EventsInv, EventKinds, ToldInv
<1>3. /\ heard' \in Seq(Nat) /\ uiTasks' \in Seq(Nat) /\ UpTo(heard', uiTasks', BeforeHeld)
      /\ Among(heard', uiTasks') = Among(heard, uiTasks) /\ n \in 1 .. BeforeHeld
      /\ \A i \in DOMAIN heard : heard[i] < n
      /\ \A i \in DOMAIN heard : i \in DOMAIN heard' /\ heard'[i] = heard[i]
      /\ \E i \in DOMAIN heard' : heard'[i] = n
  BY <1>1, <1>2, TaskTold
<1> HIDE DEF n, s
<1>4. ASSUME emitted[n] = "stopped"
      PROVE  /\ s \in Stops /\ \A k \in Range(heard) : StopsIn(k) < s
  <2>1. n \in Nat \ {0} /\ n <= Len(emitted) /\ n - 1 \in Nat /\ (n - 1) + 1 = n
    BY <1>2, <1>3
  <2>2. /\ StopsIn(n - 1) \in Nat /\ s = StopsIn(n - 1) + 1
        /\ \A m \in 0 .. n - 1 : StopsIn(m) <= StopsIn(n - 1)
    <3>1. StopsIn((n - 1) + 1) = StopsIn(n - 1) + (IF emitted[(n - 1) + 1] = "stopped" THEN 1 ELSE 0)
      BY <1>2, <2>1, StopsCounted
    <3> QED
      BY <1>2, <1>4, <2>1, <3>1, StopsCounted DEF s
  <2>3. StopsIn(n) <= StopsIn(Len(emitted))
    <3>1. n \in 0 .. Len(emitted)
      BY <1>2, <2>1
    <3> QED
      BY <1>2, <3>1, StopsCounted
  <2>4. s \in Stops
    BY <1>2, <2>2, <2>3 DEF Stops, s
  <2>5. ASSUME NEW k \in Range(heard) PROVE StopsIn(k) < s
    <3>1. k \in 0 .. n - 1
      <4>1. k \in 1 .. BeforeHeld /\ k < n
        BY <1>2, <1>3 DEF UpTo, Range
      <4> QED
        BY <1>2, <2>1, <4>1
    <3>2. k \in Nat /\ StopsIn(k) \in Nat /\ StopsIn(k) <= StopsIn(n - 1)
      <4>1. k \in Nat
        BY <2>1, <3>1
      <4> QED
        BY <1>2, <2>2, <3>1, <4>1, StopsCounted
    <3> QED
      BY <2>2, <3>2
  <2> QED
    BY <2>4, <2>5
<1>5. \A k \in Nat : StopsIn(k)' = StopsIn(k)
  BY <1>1 DEF StopsIn
<1>6. ASSUME emitted[n] = "stopped"
      PROVE  mirrors[s].at = "none"
  <2>1. ASSUME NEW k \in Range(heard), s = StopsIn(k) PROVE FALSE
    <3>1. s \in Nat /\ s < s
      BY <1>2, <1>4, <1>6, <2>1 DEF Stops
    <3> QED
      BY <3>1
  <2> QED
    BY <1>4, <1>6, <2>1 DEF EventsInv, MirroredOnce
<1>7. /\ mirrors' \in [Stops -> [at : {"none", "flushing", "fetching", "storing"} \cup Outcomes,
                                 item : 0 .. MaxStops, session : 0 .. MaxSignIns, known : 0 .. MaxStops]]
      /\ \A t \in Stops : \/ mirrors'[t] = mirrors[t]
                          \/ /\ emitted[n] = "stopped" /\ t = s /\ mirrors[t].at = "none"
                             /\ mirrors'[t].at \in {"flushing", "deferred"}
  <2>1. CASE emitted[n] # "stopped"
    BY <1>1, <2>1 DEF EventsInv, EventKinds
  <2>2. CASE emitted[n] = "stopped"
    <3>1. mirrors' = [mirrors EXCEPT ![s].at = IF started THEN "flushing" ELSE "deferred"]
          /\ s \in Stops /\ mirrors[s].at = "none"
      BY <1>1, <1>4, <1>6, <2>2
    <3> QED
      BY <2>2, <3>1 DEF EventsInv, EventKinds, Outcomes
  <2> QED
    BY <2>1, <2>2
<1>8. EventKinds'
  <2>1. StopsIn(Len(emitted))' = StopsIn(Len(emitted))
    BY <1>1 DEF StopsIn
  <2> QED
    BY <1>1, <1>3, <1>7, <2>1 DEF EventsInv, EventKinds
<1>9. ToldInv'
  <2>1. BeforeHeld' = BeforeHeld
    BY <1>1 DEF BeforeHeld
  <2> QED
    BY <1>1, <1>3, <2>1 DEF EventsInv, ToldInv
<1>10. MirroredOnce'
  <2>1. ASSUME NEW t \in Stops, mirrors'[t].at # "none"
        PROVE  \E k \in Range(heard') : emitted'[k] = "stopped" /\ t = StopsIn(k)'
    <3>1. CASE mirrors'[t] = mirrors[t]
      <4>1. PICK k \in Range(heard) : emitted[k] = "stopped" /\ t = StopsIn(k)
        BY <2>1, <3>1 DEF EventsInv, MirroredOnce
      <4>2. k \in Range(heard')
        BY <1>3 DEF Range
      <4>3. StopsIn(k)' = StopsIn(k)
        BY <1>1 DEF StopsIn
      <4> QED
        BY <1>1, <4>1, <4>2, <4>3
    <3>2. CASE emitted[n] = "stopped" /\ t = s
      <4>1. PICK k \in Range(heard') : k = n
        BY <1>3 DEF Range
      <4>2. StopsIn(k)' = s
        BY <1>1, <4>1 DEF StopsIn, s
      <4> QED
        BY <1>1, <3>2, <4>1, <4>2
    <3> QED
      BY <1>7, <3>1, <3>2
  <2> QED
    BY <2>1 DEF MirroredOnce
<1>11. FetchedKnown'
  <2>1. \A t \in Stops : mirrors'[t].at \in {"fetching", "storing"} => mirrors'[t] = mirrors[t]
    BY <1>7
  <2> QED
    BY <1>1, <2>1 DEF EventsInv, FetchedKnown
<1> QED
  BY <1>1, <1>7, <1>8, <1>9, <1>10, <1>11 DEF EventsInv

\* A step of the threads that refresh, of the reporter or of a sign-in.
LEMMA LibraryOnly ==
  ASSUME EventsAssumption, EventsInv,
         UNCHANGED <<emitted, taken, pendingState, deadline, uiTasks, heard>>,
         reports' \in 0 .. StopsIn(Len(emitted)), progress' \in 0 .. reports', cached' \in 0 .. MaxStops,
         signIns' \in 0 .. MaxSignIns, cycleAsked' \in BOOLEAN,
         mirrors' \in [Stops -> [at : {"none", "flushing", "fetching", "storing"} \cup Outcomes,
                                 item : 0 .. MaxStops, session : 0 .. MaxSignIns, known : 0 .. MaxStops]],
         \A s \in Stops : mirrors[s].at = "none" => mirrors'[s].at = "none", FetchedKnown'
  PROVE  EventsInv'
<1>1. StopsIn(Len(emitted))' = StopsIn(Len(emitted)) /\ BeforeHeld' = BeforeHeld
  BY DEF StopsIn, BeforeHeld
<1>2. EventKinds'
  BY <1>1 DEF EventsInv, EventKinds
<1>3. ToldInv'
  BY <1>1 DEF EventsInv, ToldInv
<1>4. MirroredOnce'
  <2>1. Range(heard)' = Range(heard) /\ \A n \in Range(heard) : StopsIn(n)' = StopsIn(n)
    BY DEF StopsIn, Range
  <2> QED
    BY <2>1 DEF EventsInv, MirroredOnce
<1> QED
  BY <1>2, <1>3, <1>4 DEF EventsInv

LEMMA ReportStep ==
  ASSUME EventsAssumption, EventsInv, NEW arrives \in BOOLEAN, ReportSent(arrives)
  PROVE  EventsInv' /\ UNCHANGED <<mirrors, cycleAsked>>
<1>1. /\ reports < StopsIn(Len(emitted)) /\ reports' = reports + 1
      /\ progress' = IF arrives THEN reports + 1 ELSE progress
      /\ UNCHANGED <<emitted, taken, pendingState, deadline, uiTasks, heard, cached, signIns, cycleAsked,
                     mirrors>>
  BY DEF ReportSent, bridge
<1>2. /\ StopsIn(Len(emitted)) \in Nat /\ reports \in Nat /\ progress \in Nat /\ progress <= reports
  BY EventNumbers DEF EventsInv
<1>3. /\ reports' \in 0 .. StopsIn(Len(emitted)) /\ progress' \in 0 .. reports'
      /\ reports <= reports' /\ progress <= progress'
  BY <1>1, <1>2
<1>4. FetchedKnown'
  <2>1. \A s \in Stops : s \in Nat /\ mirrors[s].known \in Nat
    <3>1. \A s \in Stops : mirrors[s].known \in 0 .. MaxStops
      BY DEF EventsInv, EventKinds
    <3> QED
      BY <3>1 DEF Stops
  <2> QED
    BY <1>1, <1>2, <1>3, <2>1 DEF EventsInv, FetchedKnown
<1> QED
  BY <1>1, <1>3, <1>4, LibraryOnly DEF EventsInv, EventKinds

\* What a thread that refreshes does keeps the invariant, and what it announces is true.
LEMMA MirrorStep ==
  ASSUME EventsAssumption, EventsInv, NEW s \in Stops, FlushEnds(s) \/ FetchItem(s) \/ StoreItem(s)
  PROVE  EventsInv' /\ MirrorsFollowReports
<1> DEFINE Moments == [at : {"none", "flushing", "fetching", "storing"} \cup Outcomes,
                       item : 0 .. MaxStops, session : 0 .. MaxSignIns, known : 0 .. MaxStops]
           m == mirrors[s]
<1>1. /\ reports \in Nat /\ progress \in Nat /\ progress <= reports /\ reports <= MaxStops
      /\ signIns \in Nat /\ signIns \in 0 .. MaxSignIns /\ MaxStops \in Nat /\ cycleAsked \in BOOLEAN
      /\ cached \in 0 .. MaxStops /\ reports \in 0 .. StopsIn(Len(emitted))
      /\ progress \in 0 .. reports /\ progress \in 0 .. MaxStops
  BY EventNumbers, SMTT(30) DEF EventsInv, EventKinds
<1>2. mirrors \in [Stops -> Moments] /\ m \in Moments
  BY DEF EventsInv, EventKinds
<1>3. /\ UNCHANGED <<emitted, taken, pendingState, deadline, uiTasks, heard, reports, progress, signIns>>
      /\ m.at \in {"flushing", "fetching", "storing"}
  BY DEF FlushEnds, FetchItem, StoreItem, bridge
\* In each case one mirror changes.
<1>4. ASSUME NEW new \in Moments, mirrors' = [mirrors EXCEPT ![s] = new], cached' \in 0 .. MaxStops,
             cycleAsked' \in BOOLEAN, cycleAsked = TRUE => cycleAsked' = TRUE,
             new.at \in {"fetching", "storing"} =>
               /\ s <= reports /\ new.known <= progress /\ new.session <= signIns
               /\ new.at = "storing" => new.known <= new.item,
             new.at = "refreshed" => cached' >= m.known /\ signIns = m.session /\ reports >= s,
             new.at = "deferred" => cycleAsked' = TRUE
      PROVE  EventsInv' /\ MirrorsFollowReports
  <2>1. /\ mirrors' \in [Stops -> Moments] /\ mirrors'[s] = new
        /\ \A t \in Stops \ {s} : mirrors'[t] = mirrors[t]
    BY <1>2, <1>4
  <2>2. FetchedKnown'
    <3>1. signIns' > 0 => cycleAsked' = TRUE
      BY <1>3, <1>4 DEF EventsInv, FetchedKnown
    <3>2. ASSUME NEW t \in Stops, mirrors'[t].at \in {"fetching", "storing"}
          PROVE  /\ t <= reports' /\ mirrors'[t].known <= progress' /\ mirrors'[t].session <= signIns'
                 /\ mirrors'[t].at = "storing" => mirrors'[t].known <= mirrors'[t].item
      <4>1. CASE t = s
        BY <1>3, <1>4, <2>1, <3>2, <4>1
      <4>2. CASE t # s
        BY <1>3, <2>1, <3>2, <4>2 DEF EventsInv, FetchedKnown
      <4> QED
        BY <4>1, <4>2
    <3> QED
      BY <3>1, <3>2 DEF FetchedKnown
  <2>3. EventsInv'
    <3>1. \A t \in Stops : mirrors[t].at = "none" => mirrors'[t].at = "none"
      BY <1>3, <2>1
    <3> QED
      BY <1>1, <1>3, <1>4, <2>1, <2>2, <3>1, LibraryOnly
  <2>4. MirrorsFollowReports
    <3>1. ASSUME NEW t \in Stops
          PROVE  /\ mirrors'[t].at = "refreshed" /\ mirrors[t].at # "refreshed" =>
                      cached' >= mirrors[t].known /\ signIns = mirrors[t].session /\ reports >= t
                 /\ mirrors'[t].at = "deferred" =>
                      cycleAsked' \/ mirrors[t].at \in {"none", "deferred"}
      <4>1. CASE t = s
        BY <1>4, <2>1, <4>1
      <4>2. CASE t # s
        BY <2>1, <4>2
      <4> QED
        BY <4>1, <4>2
    <3> QED
      BY <3>1 DEF MirrorsFollowReports
  <2> QED
    BY <2>3, <2>4
\* It leaves the rest to a cycle.
<1>5. CASE AskForCycle(s) /\ cached' = cached
  <2>1. /\ [m EXCEPT !.at = "deferred"] \in Moments /\ [m EXCEPT !.at = "deferred"].at = "deferred"
        /\ mirrors' = [mirrors EXCEPT ![s] = [m EXCEPT !.at = "deferred"]] /\ cycleAsked' = TRUE
    BY <1>2, <1>5 DEF AskForCycle, Ends, Outcomes
  <2> QED
    BY <1>1, <1>4, <1>5, <2>1
<1>6. CASE FlushEnds(s) /\ ~AskForCycle(s)
  <2> DEFINE new == [at |-> "fetching", item |-> 0, session |-> signIns, known |-> progress]
  <2>1. /\ reports >= s /\ mirrors' = [mirrors EXCEPT ![s] = new] /\ cycleAsked' = cycleAsked
        /\ cached' = cached
    BY <1>6 DEF FlushEnds, Flushed
  <2>2. new \in Moments /\ new.at = "fetching" /\ new.known = progress /\ new.session = signIns
    BY <1>1
  <2>3. /\ s <= reports /\ new.known <= progress /\ new.session <= signIns
        /\ cached' \in 0 .. MaxStops /\ cycleAsked' \in BOOLEAN
        /\ new.at # "storing" /\ new.at # "refreshed" /\ new.at # "deferred"
    BY <1>1, <2>1, <2>2 DEF Stops
  <2> HIDE DEF new, Moments, m
  <2> QED
    BY <1>4, <2>1, <2>2, <2>3
<1>7. CASE FetchItem(s) /\ ~AskForCycle(s)
  <2> DEFINE new == [m EXCEPT !.at = "storing", !.item = progress]
  <2>1. /\ m.at = "fetching" /\ mirrors' = [mirrors EXCEPT ![s] = new] /\ cycleAsked' = cycleAsked
        /\ cached' = cached
    BY <1>7 DEF FetchItem
  <2>2. /\ new \in Moments /\ new.at = "storing" /\ new.known = m.known /\ new.session = m.session
        /\ new.item = progress
    BY <1>1, <1>2
  <2>3. s <= reports /\ m.known <= progress /\ m.session <= signIns
    BY <2>1 DEF EventsInv, FetchedKnown
  <2> HIDE DEF new, Moments
  <2> QED
    BY <1>1, <1>4, <2>1, <2>2, <2>3
<1>8. CASE StoreItem(s) /\ ~AskForCycle(s)
  <2>1. /\ m.at = "storing" /\ s <= reports /\ m.known <= progress /\ m.session <= signIns
        /\ m.known <= m.item /\ s \in Nat
    BY <1>8 DEF StoreItem, EventsInv, FetchedKnown, Stops
  <2>2. CASE ~SameSession(s) /\ Ends(s, "deferred") /\ UNCHANGED <<cached, cycleAsked>>
    <3> DEFINE new == [m EXCEPT !.at = "deferred"]
    <3>1. new \in Moments /\ new.at = "deferred" /\ mirrors' = [mirrors EXCEPT ![s] = new]
      BY <1>2, <2>2 DEF Ends, Outcomes
    <3>2. m.session \in Nat /\ m.session # signIns
      BY <1>2, <2>2 DEF SameSession
    <3>3. cycleAsked' = TRUE
      BY <1>1, <2>1, <2>2, <3>2 DEF EventsInv, FetchedKnown
    <3> HIDE DEF new, Moments
    <3> QED
      BY <1>1, <1>4, <2>2, <3>1, <3>3
  <2>3. CASE SameSession(s) /\ cached' = m.item /\ Ends(s, "refreshed") /\ cycleAsked' = cycleAsked
    <3> DEFINE new == [m EXCEPT !.at = "refreshed"]
    <3>1. new \in Moments /\ new.at = "refreshed" /\ mirrors' = [mirrors EXCEPT ![s] = new]
      BY <1>2, <2>3 DEF Ends, Outcomes
    <3>2. /\ m.session = signIns /\ cached' \in 0 .. MaxStops /\ cached' >= m.known
      BY <1>2, <2>1, <2>3 DEF SameSession
    <3> HIDE DEF new, Moments
    <3> QED
      BY <1>1, <1>4, <2>1, <2>3, <3>1, <3>2
  <2> QED
    BY <1>8, <2>2, <2>3 DEF StoreItem
<1>9. AskForCycle(s) => cached' = cached
  <2>1. CASE FlushEnds(s) \/ FetchItem(s)
    BY <2>1 DEF FlushEnds, FetchItem
  <2>2. CASE StoreItem(s)
    <3>1. CASE cached' = m.item /\ Ends(s, "refreshed")
      <4>1. mirrors'[s].at = "refreshed"
        BY <1>2, <3>1 DEF Ends
      <4>2. AskForCycle(s) => mirrors'[s].at = "deferred"
        BY <1>2 DEF AskForCycle, Ends
      <4> QED
        BY <4>1, <4>2
    <3> QED
      BY <2>2, <3>1 DEF StoreItem
  <2> QED
    BY <2>1, <2>2
<1> QED
  BY <1>5, <1>6, <1>7, <1>8, <1>9

LEMMA NextSignInStep ==
  ASSUME EventsAssumption, EventsInv, NextSignIn
  PROVE  EventsInv' /\ mirrors' = mirrors
<1>1. /\ signIns < MaxSignIns /\ signIns' = signIns + 1 /\ cached' = 0 /\ cycleAsked' = TRUE
      /\ UNCHANGED <<emitted, taken, pendingState, deadline, uiTasks, heard, reports, progress, mirrors>>
  BY DEF NextSignIn, bridge
<1>2. signIns \in Nat /\ MaxSignIns \in Nat /\ MaxStops \in Nat
  BY EventNumbers DEF EventsInv
<1>3. signIns' \in 0 .. MaxSignIns /\ cached' \in 0 .. MaxStops /\ signIns <= signIns'
  BY <1>1, <1>2
<1>4. FetchedKnown'
  <2>1. \A s \in Stops : mirrors[s].session \in Nat
    BY DEF EventsInv, EventKinds
  <2> QED
    BY <1>1, <1>2, <1>3, <2>1 DEF EventsInv, FetchedKnown
<1> QED
  BY <1>1, <1>3, <1>4, LibraryOnly DEF EventsInv, EventKinds

LEMMA EventsStep ==
  ASSUME EventsAssumption, EventsInv, [EventsNext]_eventVars
  PROVE  EventsInv' /\ [MirrorsFollowReports]_eventVars
<1>1. ASSUME mirrors' = mirrors PROVE MirrorsFollowReports
  BY <1>1 DEF MirrorsFollowReports
<1>2. CASE UNCHANGED eventVars
  <2>1. UNCHANGED <<emitted, taken, pendingState, deadline, uiTasks, heard, reports, progress, cached,
                    signIns, cycleAsked, mirrors>>
    BY <1>2 DEF eventVars, bridge, library
  <2>2. FetchedKnown'
    BY <2>1 DEF EventsInv, FetchedKnown
  <2> QED
    BY <1>2, <2>1, <2>2, LibraryOnly DEF EventsInv, EventKinds
<1>3. ASSUME NEW kind \in {"state", "stopped", "failed"}, PlayerSends(kind)
      PROVE  EventsInv' /\ MirrorsFollowReports
  <2>1. mirrors' = mirrors
    BY <1>3 DEF PlayerSends
  <2> QED
    BY <1>1, <1>3, <2>1, EventSent
<1>4. CASE BridgeTakesState \/ BridgeTakesOther \/ DeadlinePassed
  <2>1. mirrors' = mirrors
    BY <1>4 DEF BridgeTakesState, BridgeTakesOther, DeadlinePassed
  <2> QED
    BY <1>1, <1>4, <2>1, BridgeStep
<1>5. ASSUME NEW yes \in BOOLEAN, DispatchPlaybackEvent(yes)
      PROVE  EventsInv' /\ MirrorsFollowReports
  <2>1. /\ EventsInv' /\ \A s \in Stops : mirrors'[s].at # mirrors[s].at => mirrors[s].at = "none"
        /\ \A s \in Stops : mirrors'[s].at = "refreshed" => mirrors[s].at = "refreshed"
    BY <1>5, Dispatched
  <2> QED
    BY <2>1 DEF MirrorsFollowReports
<1>6. ASSUME NEW yes \in BOOLEAN, ReportSent(yes)
      PROVE  EventsInv' /\ MirrorsFollowReports
  BY <1>1, <1>6, ReportStep
<1>7. ASSUME NEW s \in Stops, FlushEnds(s) \/ FetchItem(s) \/ StoreItem(s)
      PROVE  EventsInv' /\ MirrorsFollowReports
  BY <1>7, MirrorStep
<1>8. CASE NextSignIn
  BY <1>1, <1>8, NextSignInStep
<1> QED
  BY <1>2, <1>3, <1>4, <1>5, <1>6, <1>7, <1>8 DEF EventsNext

LEMMA EventsInvHolds ==
  ASSUME EventsAssumption
  PROVE  EventsSpec => []EventsInv /\ [][MirrorsFollowReports]_eventVars
<1>1. EventsInit => EventsInv
  BY EventsInitially
<1>2. EventsInv /\ [EventsNext]_eventVars => EventsInv' /\ [MirrorsFollowReports]_eventVars
  BY EventsStep
<1> QED
  BY <1>1, <1>2, PTL DEF EventsSpec

(* A page hears of everything in the order it happened in, of every stop and failure, and  *)
(* in the end of the last state (start_playback_event_bridge).                             *)
THEOREM PagesHearInOrder ==
  ASSUME EventsAssumption
  PROVE  EventsSpec => [](EventsTypeOK /\ PageFollowsPlayer)
<1>1. EventsInv => EventsTypeOK /\ PageFollowsPlayer
  BY EventsTruth
<1> QED
  BY <1>1, EventsInvHolds, PTL

(* What is announced as refreshed is in the cache, as the server knew it after the report, *)
(* and under the session it was fetched in; and what is left to a cycle is left to one that *)
(* was asked for (mirror_playback_progress).                                               *)
THEOREM MirrorsAreTrue ==
  ASSUME EventsAssumption
  PROVE  EventsSpec => [][MirrorsFollowReports]_eventVars
BY EventsInvHolds, PTL

-----------------------------------------------------------------------------------
(* Ratings on cards.                                                                      *)
(* For any cards, requests, hours and sign-ins, a title is asked for by one batch at a      *)
(* time, and what was fetched stays (CardRatings).  Only the rows of an earlier version of    *)
(* the cache can be rewritten as they once were, and those are older than all that was       *)
(* fetched (EarlierInv): a batch that has read one and comes late finds the row still there,  *)
(* or the row has expired and is not written again.                                         *)

RatingRows == UNION {[S -> CachedRatings] : S \in SUBSET CardTitles}
BatchSteps == {"sanitize", "claim", "asking", "save", "release", "reread", "answer"}
CardBatch == [pc : BatchSteps, cards : CardPages, now : 0 .. MaxCardTime, session : 0 .. MaxRatingSessions,
              cache : RatingRows, owned : SUBSET CardTitles, answer : SUBSET CardTitles, asked : BOOLEAN]

CardsKnown ==
  /\ ratingCache \in RatingRows /\ inFlight \subseteq CardTitles
  /\ cardBatches \in [RatingBatches -> CardBatch \cup {NoBatch}]
  /\ cardTime \in 0 .. MaxCardTime /\ ratingSession \in 0 .. MaxRatingSessions
  /\ batchCount \in 0 .. MaxRatingBatches
EarlierInv ==
  /\ \A t \in DOMAIN ratingCache :
       ratingCache[t].fetched <= cardTime /\ (ratingCache[t].current = FALSE => ratingCache[t].fetched = 0)
  /\ \A b \in RatingBatches : cardBatches[b].pc = "sanitize" =>
       \A t \in DOMAIN cardBatches[b].cache : cardBatches[b].cache[t].current = FALSE =>
         /\ cardBatches[b].cache[t].fetched = 0
         /\ t \in DOMAIN ratingCache \/ ExpireRatings < cardTime

CardsInv == CardsKnown /\ TitlesAreAskedOnce /\ EarlierInv

-----------------------------------------------------------------------------------
LEMMA RowsIs ==
  ASSUME NEW written \in RatingRows
  PROVE  /\ DOMAIN written \subseteq CardTitles
         /\ \A t \in DOMAIN written : /\ written[t] \in CachedRatings
                                   /\ written[t].fetched \in 0 .. MaxCardTime /\ written[t].current \in BOOLEAN
                                   /\ written[t].session \in 0 .. MaxRatingSessions
<1>1. PICK S \in SUBSET CardTitles : written \in [S -> CachedRatings]
  BY DEF RatingRows
<1>2. DOMAIN written = S /\ \A t \in S : written[t] \in CachedRatings
  BY <1>1
<1> QED
  BY <1>2 DEF CachedRatings

\* What is kept of rows that expire.
LEMMA SavedIs ==
  ASSUME NEW written \in RatingRows, ratingCache \in RatingRows
  PROVE  LET S == SavedRows(written) IN
         /\ S \in RatingRows /\ DOMAIN S \subseteq DOMAIN ratingCache \cup DOMAIN written
         /\ \A t \in DOMAIN S : S[t] = IF t \in DOMAIN written THEN written[t] ELSE ratingCache[t]
         /\ \A t \in DOMAIN ratingCache \ DOMAIN written :
              t \in DOMAIN S \/ ~(cardTime <= ratingCache[t].fetched + ExpireRatings)
         /\ \A t \in DOMAIN written : t \in DOMAIN S <=> cardTime <= written[t].fetched + ExpireRatings
<1> DEFINE now == [t \in DOMAIN ratingCache \cup DOMAIN written |->
                     IF t \in DOMAIN written THEN written[t] ELSE ratingCache[t]]
           kept == {u \in DOMAIN now : cardTime <= now[u].fetched + ExpireRatings}
           S == [t \in kept |-> now[t]]
<1>1. /\ DOMAIN ratingCache \subseteq CardTitles /\ DOMAIN written \subseteq CardTitles
      /\ \A t \in DOMAIN written : written[t] \in CachedRatings
      /\ \A t \in DOMAIN ratingCache : ratingCache[t] \in CachedRatings
  BY RowsIs
<1>2. /\ DOMAIN now = DOMAIN ratingCache \cup DOMAIN written
      /\ \A t \in DOMAIN now : /\ now[t] = IF t \in DOMAIN written THEN written[t] ELSE ratingCache[t]
                               /\ now[t] \in CachedRatings
  BY <1>1
<1>3. SavedRows(written) = S
  BY DEF SavedRows
<1> HIDE DEF now
<1>4. kept \in SUBSET CardTitles /\ S \in [kept -> CachedRatings]
  BY <1>1, <1>2
<1>5. S \in RatingRows /\ DOMAIN S = kept /\ \A t \in kept : S[t] = now[t]
  BY <1>4 DEF RatingRows
<1> QED
  BY <1>2, <1>3, <1>5

\* A batch that has begun.
LEMMA BatchIs ==
  ASSUME CardsKnown, NEW b \in RatingBatches, cardBatches[b].pc # "idle"
  PROVE  /\ cardBatches[b] \in CardBatch /\ cardBatches[b].cache \in RatingRows
         /\ Titles(cardBatches[b]) \subseteq CardTitles
<1>1. cardBatches[b] \in CardBatch
  BY DEF CardsKnown, NoBatch
<1> QED
  BY <1>1 DEF CardBatch, Titles, CardTitles, Cards

\* What is in the cache of some titles.
LEMMA CachedIs ==
  ASSUME CardsKnown, NEW titles \in SUBSET CardTitles
  PROVE  /\ CachedOf(titles) \in RatingRows /\ DOMAIN CachedOf(titles) \subseteq DOMAIN ratingCache
         /\ \A t \in DOMAIN CachedOf(titles) : CachedOf(titles)[t] = ratingCache[t]
<1> DEFINE S == titles \cap DOMAIN ratingCache
<1>1. \A t \in S : ratingCache[t] \in CachedRatings
  BY RowsIs DEF CardsKnown
<1>2. [t \in S |-> ratingCache[t]] \in [S -> CachedRatings] /\ S \in SUBSET CardTitles
  BY <1>1
<1>3. [t \in S |-> ratingCache[t]] \in RatingRows
  BY <1>2 DEF RatingRows
<1> QED
  BY <1>3 DEF CachedOf

\* The hours only go on, and rows stay until they have expired.
RowsStay ==
  \A t \in DOMAIN ratingCache : t \in DOMAIN ratingCache' \/ ExpireRatings < cardTime

LEMMA EarlierStays ==
  ASSUME CardRatingsAssumption, CardsInv, cardTime' \in Nat, cardTime <= cardTime', RowsStay,
         NEW b \in RatingBatches, UNCHANGED <<cardBatches[b]>>, cardBatches'[b].pc = "sanitize",
         NEW t \in DOMAIN cardBatches'[b].cache, cardBatches'[b].cache[t].current = FALSE
  PROVE  /\ cardBatches'[b].cache[t].fetched = 0
         /\ t \in DOMAIN ratingCache' \/ ExpireRatings < cardTime'
<1>1. /\ cardBatches[b].cache[t].fetched = 0
      /\ t \in DOMAIN ratingCache \/ ExpireRatings < cardTime
  BY DEF CardsInv, EarlierInv
<1>2. cardTime \in Nat /\ ExpireRatings \in Nat
  BY DEF CardsInv, CardsKnown, CardRatingsAssumption
<1> QED
  BY <1>1, <1>2 DEF RowsStay

\* One batch moves.
LEMMA BatchMoves ==
  ASSUME CardRatingsAssumption, CardsInv, NEW b \in RatingBatches, NEW new \in CardBatch \cup {NoBatch},
         cardBatches' = [cardBatches EXCEPT ![b] = new],
         UNCHANGED <<cardTime, ratingSession>>, batchCount' \in 0 .. MaxRatingBatches,
         ratingCache' \in RatingRows, inFlight' \subseteq CardTitles, RowsStay,
         \A t \in DOMAIN ratingCache' :
           /\ ratingCache'[t].fetched <= cardTime
           /\ ratingCache'[t].current = FALSE => ratingCache'[t].fetched = 0,
         new.pc = "sanitize" => \A t \in DOMAIN new.cache : new.cache[t].current = FALSE =>
           new.cache[t].fetched = 0 /\ (t \in DOMAIN ratingCache' \/ ExpireRatings < cardTime)
  PROVE  /\ CardsKnown' /\ EarlierInv'
         /\ cardBatches'[b] = new /\ \A a \in RatingBatches : a # b => cardBatches'[a] = cardBatches[a]
<1>1. /\ cardBatches \in [RatingBatches -> CardBatch \cup {NoBatch}]
      /\ cardTime \in 0 .. MaxCardTime /\ ratingSession \in 0 .. MaxRatingSessions
  BY DEF CardsInv, CardsKnown
<1>2. /\ cardBatches' \in [RatingBatches -> CardBatch \cup {NoBatch}]
      /\ cardBatches'[b] = new /\ \A a \in RatingBatches : a # b => cardBatches'[a] = cardBatches[a]
  BY <1>1
<1>3. CardsKnown'
  BY <1>1, <1>2 DEF CardsKnown
<1>4. ASSUME NEW a \in RatingBatches, cardBatches'[a].pc = "sanitize",
             NEW t \in DOMAIN cardBatches'[a].cache, cardBatches'[a].cache[t].current = FALSE
      PROVE  /\ cardBatches'[a].cache[t].fetched = 0
             /\ t \in DOMAIN ratingCache' \/ ExpireRatings < cardTime'
  <2>1. CASE a = b
    BY <1>2, <1>4, <2>1
  <2>2. CASE a # b
    <3>1. cardTime' \in Nat /\ cardTime <= cardTime'
      BY <1>1
    <3>2. UNCHANGED <<cardBatches[a]>>
      BY <1>2, <2>2
    <3> QED
      BY <1>4, <3>1, <3>2, EarlierStays
  <2> QED
    BY <2>1, <2>2
<1>5. EarlierInv'
  BY <1>4 DEF EarlierInv
<1> QED
  BY <1>2, <1>3, <1>5

\* The cache stays as it is.
LEMMA CacheAlone ==
  ASSUME CardsInv, UNCHANGED ratingCache
  PROVE  /\ ratingCache' \in RatingRows /\ RowsStay /\ FetchedRatingsStay
         /\ \A t \in DOMAIN ratingCache' :
              /\ ratingCache'[t].fetched <= cardTime
              /\ ratingCache'[t].current = FALSE => ratingCache'[t].fetched = 0
<1>1. ratingCache \in RatingRows /\ \A t \in DOMAIN ratingCache : ratingCache[t].fetched \in Nat
  BY RowsIs DEF CardsInv, CardsKnown
<1> QED
  BY <1>1 DEF CardsInv, EarlierInv, RowsStay, FetchedRatingsStay

\* A title that is asked for stays with the batch that asks, and the claims stay apart.
LEMMA ClaimsAreKept ==
  ASSUME CardsInv, NEW b \in RatingBatches,
         \A a \in RatingBatches : a # b => cardBatches'[a] = cardBatches[a],
         \/ /\ Holding(b) /\ Holding(b)' /\ cardBatches'[b].owned = cardBatches[b].owned
            /\ UNCHANGED inFlight
         \/ ~Holding(b) /\ ~Holding(b)' /\ UNCHANGED inFlight
         \/ /\ ~Holding(b) /\ Holding(b)' /\ cardBatches'[b].owned \cap inFlight = {}
            /\ inFlight' = inFlight \cup cardBatches'[b].owned
         \/ Holding(b) /\ ~Holding(b)' /\ inFlight' = inFlight \ cardBatches[b].owned
  PROVE  TitlesAreAskedOnce'
<1> DEFINE Of(a) == cardBatches[a].owned
           H == {c \in RatingBatches : Holding(c)}
<1>1. /\ \A a, c \in H : a # c => Of(a) \cap Of(c) = {}
      /\ \A t : t \in inFlight <=> \E c \in H : t \in Of(c)
  BY DEF CardsInv, TitlesAreAskedOnce
<1>2. \A a \in RatingBatches : a # b => (Holding(a)' <=> Holding(a)) /\ Of(a)' = Of(a)
  BY DEF Holding
<1>3. /\ \A a, c \in H' : a # c => Of(a)' \cap Of(c)' = {}
      /\ \A t : t \in inFlight' <=> \E c \in H' : t \in Of(c)'
  <2>1. CASE /\ Holding(b) /\ Holding(b)' /\ cardBatches'[b].owned = cardBatches[b].owned
             /\ UNCHANGED inFlight
    BY <1>1, <1>2, <2>1
  <2>2. CASE ~Holding(b) /\ ~Holding(b)' /\ UNCHANGED inFlight
    BY <1>1, <1>2, <2>2
  <2>3. CASE /\ ~Holding(b) /\ Holding(b)' /\ cardBatches'[b].owned \cap inFlight = {}
             /\ inFlight' = inFlight \cup cardBatches'[b].owned
    BY <1>1, <1>2, <2>3
  <2>4. CASE Holding(b) /\ ~Holding(b)' /\ inFlight' = inFlight \ cardBatches[b].owned
    BY <1>1, <1>2, <2>4
  <2> QED
    BY <2>1, <2>2, <2>3, <2>4
<1>4. inFlight' = UNION {Of(c)' : c \in H'}
  BY <1>3
<1> QED
  BY <1>3, <1>4 DEF TitlesAreAskedOnce, Holding

-----------------------------------------------------------------------------------
\* What is kept of rows that are written.
LEMMA RowsWritten ==
  ASSUME CardRatingsAssumption, CardsInv, NEW written \in RatingRows, ratingCache' = SavedRows(written),
         \A t \in DOMAIN written : written[t].current = TRUE /\ written[t].fetched <= cardTime
  PROVE  /\ ratingCache' \in RatingRows /\ RowsStay
         /\ \A t \in DOMAIN ratingCache' :
              /\ ratingCache'[t].fetched <= cardTime
              /\ ratingCache'[t].current = FALSE => ratingCache'[t].fetched = 0
<1>1. /\ ratingCache \in RatingRows /\ cardTime \in Nat /\ ExpireRatings \in Nat
      /\ \A t \in DOMAIN ratingCache : ratingCache[t].fetched \in Nat
      /\ \A t \in DOMAIN written : written[t].fetched \in Nat
  BY RowsIs DEF CardsInv, CardsKnown, CardRatingsAssumption
<1>2. /\ ratingCache' \in RatingRows /\ DOMAIN ratingCache' \subseteq DOMAIN ratingCache \cup DOMAIN written
      /\ \A t \in DOMAIN ratingCache' :
           ratingCache'[t] = IF t \in DOMAIN written THEN written[t] ELSE ratingCache[t]
      /\ \A t \in DOMAIN ratingCache \ DOMAIN written :
           t \in DOMAIN ratingCache' \/ ~(cardTime <= ratingCache[t].fetched + ExpireRatings)
      /\ \A t \in DOMAIN written : t \in DOMAIN ratingCache' <=> cardTime <= written[t].fetched + ExpireRatings
  BY <1>1, SavedIs
<1>3. RowsStay
  BY <1>1, <1>2 DEF RowsStay
<1>4. \A t \in DOMAIN ratingCache :
        ratingCache[t].fetched <= cardTime /\ (ratingCache[t].current = FALSE => ratingCache[t].fetched = 0)
  BY DEF CardsInv, EarlierInv
<1>5. \A t \in DOMAIN ratingCache' :
        /\ ratingCache'[t].fetched <= cardTime
        /\ ratingCache'[t].current = FALSE => ratingCache'[t].fetched = 0
  BY <1>2, <1>4
<1> QED
  BY <1>2, <1>3, <1>5

LEMMA BatchBegins ==
  ASSUME CardRatingsAssumption, CardsInv, NEW b \in RatingBatches, NEW cards \in CardPages, StartBatch(b, cards)
  PROVE  CardsInv' /\ FetchedRatingsStay
<1> DEFINE new == [pc |-> "sanitize", cards |-> cards, now |-> cardTime, session |-> ratingSession,
                   cache |-> CachedOf({TitleOf[c] : c \in cards}), owned |-> {}, answer |-> {},
                   asked |-> FALSE]
<1>1. {TitleOf[c] : c \in cards} \subseteq CardTitles
  BY DEF CardTitles, Cards
<1>2. /\ new.cache \in RatingRows /\ DOMAIN new.cache \subseteq DOMAIN ratingCache
      /\ \A t \in DOMAIN new.cache : new.cache[t] = ratingCache[t]
  BY <1>1, CachedIs DEF CardsInv
<1>3. new \in CardBatch /\ new.pc = "sanitize" /\ new.owned = {}
  BY <1>2 DEF CardBatch, BatchSteps, CardsInv, CardsKnown
<1>4. /\ cardBatches' = [cardBatches EXCEPT ![b] = new] /\ cardBatches[b].pc = "idle"
      /\ UNCHANGED <<ratingCache, inFlight, cardTime, ratingSession>> /\ batchCount' \in 0 .. MaxRatingBatches
  <2>1. /\ cardBatches' = [cardBatches EXCEPT ![b] = new] /\ cardBatches[b] = NoBatch
        /\ UNCHANGED <<ratingCache, inFlight, cardTime, ratingSession>>
        /\ batchCount' = batchCount + 1 /\ batchCount < MaxRatingBatches
    BY DEF StartBatch
  <2>2. batchCount \in 0 .. MaxRatingBatches /\ MaxRatingBatches \in Nat
    BY DEF CardsInv, CardsKnown, CardRatingsAssumption
  <2> QED
    BY <2>1, <2>2 DEF NoBatch
<1> HIDE DEF new
<1>5. \A t \in DOMAIN new.cache : new.cache[t].current = FALSE =>
        new.cache[t].fetched = 0 /\ (t \in DOMAIN ratingCache' \/ ExpireRatings < cardTime)
  BY <1>2, <1>4 DEF CardsInv, EarlierInv
<1>6. /\ ratingCache' \in RatingRows /\ RowsStay /\ FetchedRatingsStay /\ inFlight' \subseteq CardTitles
      /\ \A t \in DOMAIN ratingCache' :
           /\ ratingCache'[t].fetched <= cardTime
           /\ ratingCache'[t].current = FALSE => ratingCache'[t].fetched = 0
  BY <1>4, CacheAlone DEF CardsInv, CardsKnown
<1>7. /\ CardsKnown' /\ EarlierInv'
      /\ cardBatches'[b] = new /\ \A a \in RatingBatches : a # b => cardBatches'[a] = cardBatches[a]
  BY <1>3, <1>4, <1>5, <1>6, BatchMoves
<1>8. TitlesAreAskedOnce'
  BY <1>3, <1>4, <1>7, ClaimsAreKept DEF Holding
<1> QED
  BY <1>6, <1>7, <1>8 DEF CardsInv

LEMMA BatchSanitizes ==
  ASSUME CardRatingsAssumption, CardsInv, NEW b \in RatingBatches, SanitizeCached(b)
  PROVE  CardsInv' /\ FetchedRatingsStay
<1> DEFINE old == EarlierRows(cardBatches[b].cache)
           written == [t \in old |-> Sanitized(cardBatches[b].cache[t])]
           readRows == [t \in DOMAIN cardBatches[b].cache |-> Sanitized(cardBatches[b].cache[t])]
           new == [cardBatches[b] EXCEPT !.pc = IF cardBatches[b].asked THEN "answer" ELSE "claim",
                                         !.cache = readRows]
<1>1. /\ cardBatches[b].pc = "sanitize" /\ cardBatches[b] \in CardBatch
      /\ cardBatches[b].cache \in RatingRows
  BY BatchIs DEF SanitizeCached, CardsInv
<1>2. /\ DOMAIN cardBatches[b].cache \subseteq CardTitles
      /\ \A t \in DOMAIN cardBatches[b].cache :
           /\ cardBatches[b].cache[t] \in CachedRatings /\ Sanitized(cardBatches[b].cache[t]) \in CachedRatings
           /\ Sanitized(cardBatches[b].cache[t]).current = TRUE
           /\ Sanitized(cardBatches[b].cache[t]).fetched = cardBatches[b].cache[t].fetched
  BY <1>1, RowsIs, ZenonT(30) DEF Sanitized, CachedRatings
<1>3. /\ old \subseteq DOMAIN cardBatches[b].cache
      /\ \A t \in old : cardBatches[b].cache[t].current = FALSE
  BY <1>2 DEF EarlierRows, CachedRatings
<1>4. readRows \in RatingRows
  <2>1. readRows \in [DOMAIN cardBatches[b].cache -> CachedRatings]
    BY <1>2
  <2> QED
    BY <1>2, <2>1 DEF RatingRows
<1>5. /\ written \in RatingRows /\ DOMAIN written = old
      /\ \A t \in old : written[t].current = TRUE /\ written[t].fetched = cardBatches[b].cache[t].fetched
  <2>1. written \in [old -> CachedRatings] /\ old \in SUBSET CardTitles
    BY <1>2, <1>3
  <2>2. written \in RatingRows
    BY <2>1 DEF RatingRows
  <2> QED
    BY <1>2, <1>3, <2>2
<1>6. \A t \in old : /\ cardBatches[b].cache[t].fetched = 0
                     /\ t \in DOMAIN ratingCache \/ ExpireRatings < cardTime
  BY <1>1, <1>3 DEF CardsInv, EarlierInv
<1>7. /\ cardBatches' = [cardBatches EXCEPT ![b] = new] /\ UNCHANGED <<inFlight, cardTime, ratingSession, batchCount>>
      /\ ratingCache' = IF old = {} THEN ratingCache ELSE SavedRows(written)
  BY <1>1 DEF SanitizeCached, CardsInv, CardsKnown
<1>8. new \in CardBatch /\ new.pc \in {"answer", "claim"} /\ new.owned = cardBatches[b].owned
  BY <1>1, <1>4 DEF CardBatch, BatchSteps
<1> HIDE DEF old, written, readRows, new
<1>9. cardTime \in Nat /\ ExpireRatings \in Nat
  BY DEF CardsInv, CardsKnown, CardRatingsAssumption
<1>10. /\ ratingCache' \in RatingRows /\ RowsStay
       /\ \A t \in DOMAIN ratingCache' :
            /\ ratingCache'[t].fetched <= cardTime
            /\ ratingCache'[t].current = FALSE => ratingCache'[t].fetched = 0
  <2>1. CASE old = {}
    BY <1>7, <2>1, CacheAlone
  <2>2. CASE old # {}
    <3>1. \A t \in DOMAIN written : written[t].current = TRUE /\ written[t].fetched <= cardTime
      BY <1>5, <1>6, <1>9
    <3>2. ratingCache' = SavedRows(written) /\ written \in RatingRows
      BY <1>5, <1>7, <2>2
    <3> QED
      BY <3>1, <3>2, RowsWritten
  <2> QED
    BY <2>1, <2>2
<1>11. /\ CardsKnown' /\ EarlierInv'
       /\ cardBatches'[b] = new /\ \A a \in RatingBatches : a # b => cardBatches'[a] = cardBatches[a]
  <2>1. inFlight' \subseteq CardTitles /\ batchCount' \in 0 .. MaxRatingBatches
    BY <1>7 DEF CardsInv, CardsKnown
  <2>2. UNCHANGED <<cardTime, ratingSession>> /\ new.pc # "sanitize"
    BY <1>7, <1>8
  <2> QED
    BY <1>7, <1>8, <1>10, <2>1, <2>2, BatchMoves
<1>12. TitlesAreAskedOnce'
  BY <1>1, <1>7, <1>8, <1>11, ClaimsAreKept DEF Holding
<1>13. FetchedRatingsStay
  <2>1. CASE old = {}
    BY <1>7, <2>1, CacheAlone
  <2>2. CASE old # {}
    <3>1. /\ \A t \in DOMAIN ratingCache : ratingCache[t].fetched \in Nat
          /\ ratingCache \in RatingRows
      BY RowsIs DEF CardsInv, CardsKnown
    <3>2. /\ DOMAIN ratingCache' \subseteq DOMAIN ratingCache \cup old
          /\ \A t \in DOMAIN ratingCache' :
               ratingCache'[t] = IF t \in old THEN written[t] ELSE ratingCache[t]
          /\ \A t \in DOMAIN ratingCache \ old :
               t \in DOMAIN ratingCache' \/ ~(cardTime <= ratingCache[t].fetched + ExpireRatings)
          /\ \A t \in old : t \in DOMAIN ratingCache' <=> cardTime <= written[t].fetched + ExpireRatings
      BY <1>5, <1>7, <2>2, <3>1, SavedIs
    <3>3. cardBatches'[b] # cardBatches[b]
      BY <1>1, <1>8, <1>11
    <3>4. ASSUME NEW t \in DOMAIN ratingCache
          PROVE  \/ t \in DOMAIN ratingCache' /\ ratingCache'[t].fetched >= ratingCache[t].fetched
                 \/ ratingCache[t].fetched + ExpireRatings < cardTime
                 \/ \E a \in RatingBatches :
                      /\ cardBatches[a].pc = "sanitize" /\ cardBatches'[a] # cardBatches[a]
                      /\ t \in DOMAIN cardBatches[a].cache /\ ~cardBatches[a].cache[t].current
      <4>1. CASE t \in old
        BY <1>1, <1>3, <3>3, <4>1
      <4>2. CASE t \notin old
        BY <1>9, <3>1, <3>2, <4>2
      <4> QED
        BY <4>1, <4>2
    <3>5. ASSUME NEW t \in DOMAIN ratingCache',
                 t \notin DOMAIN ratingCache \/ ratingCache'[t].fetched > ratingCache[t].fetched
          PROVE  FALSE
      <4>1. t \in old
        BY <3>1, <3>2, <3>5
      <4>2. ratingCache'[t].fetched = 0 /\ ~(ExpireRatings < cardTime)
        BY <1>5, <1>6, <1>9, <3>2, <4>1
      <4> QED
        BY <1>6, <3>1, <3>5, <4>1, <4>2
    <3> QED
      BY <3>4, <3>5 DEF FetchedRatingsStay
  <2> QED
    BY <2>1, <2>2
<1> QED
  BY <1>11, <1>12, <1>13 DEF CardsInv

LEMMA BatchClaims ==
  ASSUME CardRatingsAssumption, CardsInv, NEW b \in RatingBatches, ClaimTitles(b)
  PROVE  CardsInv' /\ FetchedRatingsStay
<1> DEFINE owned == Claimed(NeedsRefresh(cardBatches[b]))
           new == [cardBatches[b] EXCEPT !.owned = owned, !.pc = IF owned = {} THEN "answer" ELSE "asking"]
<1>1. cardBatches[b].pc = "claim" /\ cardBatches[b] \in CardBatch /\ Titles(cardBatches[b]) \subseteq CardTitles
  BY BatchIs DEF ClaimTitles, CardsInv
<1>2. owned \subseteq CardTitles /\ owned \cap inFlight = {}
  BY <1>1 DEF Claimed, NeedsRefresh
<1>3. /\ cardBatches' = [cardBatches EXCEPT ![b] = new] /\ inFlight' = inFlight \cup owned
      /\ UNCHANGED <<ratingCache, cardTime, ratingSession, batchCount>>
  BY <1>1 DEF ClaimTitles, CardsInv, CardsKnown
<1> HIDE DEF owned
<1>4. new \in CardBatch /\ new.pc = (IF owned = {} THEN "answer" ELSE "asking") /\ new.owned = owned
  BY <1>1, <1>2 DEF CardBatch, BatchSteps
<1> HIDE DEF new
<1>5. /\ ratingCache' \in RatingRows /\ RowsStay /\ FetchedRatingsStay
      /\ \A t \in DOMAIN ratingCache' :
           /\ ratingCache'[t].fetched <= cardTime
           /\ ratingCache'[t].current = FALSE => ratingCache'[t].fetched = 0
  BY <1>3, CacheAlone
<1>6. /\ CardsKnown' /\ EarlierInv'
      /\ cardBatches'[b] = new /\ \A a \in RatingBatches : a # b => cardBatches'[a] = cardBatches[a]
  <2>1. inFlight' \subseteq CardTitles /\ batchCount' \in 0 .. MaxRatingBatches
    BY <1>2, <1>3 DEF CardsInv, CardsKnown
  <2> QED
    BY <1>3, <1>4, <1>5, <2>1, BatchMoves
<1>7. TitlesAreAskedOnce'
  <2>1. CASE owned = {}
    <3>1. ~Holding(b) /\ ~Holding(b)' /\ UNCHANGED inFlight
      BY <1>1, <1>3, <1>4, <1>6, <2>1 DEF Holding
    <3> QED
      BY <1>6, <3>1, ClaimsAreKept
  <2>2. CASE owned # {}
    <3>1. /\ ~Holding(b) /\ Holding(b)' /\ cardBatches'[b].owned \cap inFlight = {}
          /\ inFlight' = inFlight \cup cardBatches'[b].owned
      BY <1>1, <1>2, <1>3, <1>4, <1>6, <2>2 DEF Holding
    <3> QED
      BY <1>6, <3>1, ClaimsAreKept
  <2> QED
    BY <2>1, <2>2
<1> QED
  BY <1>5, <1>6, <1>7 DEF CardsInv

\* The steps that neither begin, claim nor write.
LEMMA BatchGoes ==
  ASSUME CardRatingsAssumption, CardsInv, NEW b \in RatingBatches,
         CompanionAnswers(b) \/ CompanionFails(b) \/ ReleaseTitles(b) \/ ReadCacheAgain(b) \/ AnswerCards(b)
  PROVE  CardsInv' /\ FetchedRatingsStay
<1>1. /\ cardBatches[b].pc \in {"asking", "release", "reread", "answer"}
      /\ UNCHANGED <<ratingCache, cardTime, ratingSession, batchCount>>
      /\ UNCHANGED inFlight \/ inFlight' = inFlight \ cardBatches[b].owned
  BY DEF CompanionAnswers, CompanionFails, ReleaseTitles, ReadCacheAgain, AnswerCards, TitlesLeft
<1>2. /\ cardBatches[b] \in CardBatch /\ Titles(cardBatches[b]) \subseteq CardTitles
      /\ cardBatches \in [RatingBatches -> CardBatch \cup {NoBatch}]
  BY <1>1, BatchIs DEF CardsInv, CardsKnown
<1>3. /\ ratingCache' \in RatingRows /\ RowsStay /\ FetchedRatingsStay
      /\ \A t \in DOMAIN ratingCache' :
           /\ ratingCache'[t].fetched <= cardTime
           /\ ratingCache'[t].current = FALSE => ratingCache'[t].fetched = 0
  BY <1>1, CacheAlone
<1>4. inFlight' \subseteq CardTitles /\ batchCount' \in 0 .. MaxRatingBatches
  BY <1>1 DEF CardsInv, CardsKnown
<1>5. ASSUME NEW new \in CardBatch \cup {NoBatch}, cardBatches' = [cardBatches EXCEPT ![b] = new],
             new.pc = "sanitize" => \A t \in DOMAIN new.cache : new.cache[t].current = FALSE =>
               new.cache[t].fetched = 0 /\ (t \in DOMAIN ratingCache' \/ ExpireRatings < cardTime),
             \/ /\ cardBatches[b].pc \in {"asking", "save", "release"} /\ new.pc \in {"asking", "save", "release"}
                /\ new.owned = cardBatches[b].owned /\ UNCHANGED inFlight
             \/ /\ cardBatches[b].pc \notin {"asking", "save", "release"}
                /\ new.pc \notin {"asking", "save", "release"} /\ UNCHANGED inFlight
             \/ /\ cardBatches[b].pc \in {"asking", "save", "release"}
                /\ new.pc \notin {"asking", "save", "release"} /\ inFlight' = inFlight \ cardBatches[b].owned
      PROVE  CardsInv' /\ FetchedRatingsStay
  <2>1. /\ CardsKnown' /\ EarlierInv'
        /\ cardBatches'[b] = new /\ \A a \in RatingBatches : a # b => cardBatches'[a] = cardBatches[a]
    BY <1>1, <1>3, <1>4, <1>5, BatchMoves
  <2>2. \/ /\ Holding(b) /\ Holding(b)' /\ cardBatches'[b].owned = cardBatches[b].owned /\ UNCHANGED inFlight
        \/ ~Holding(b) /\ ~Holding(b)' /\ UNCHANGED inFlight
        \/ Holding(b) /\ ~Holding(b)' /\ inFlight' = inFlight \ cardBatches[b].owned
    BY <1>5, <2>1 DEF Holding
  <2>3. TitlesAreAskedOnce'
    BY <2>1, <2>2, ClaimsAreKept
  <2> QED
    BY <1>3, <2>1, <2>3 DEF CardsInv
<1>6. CASE CompanionAnswers(b)
  <2>1. PICK some \in SUBSET cardBatches[b].owned :
          cardBatches' = [cardBatches EXCEPT ![b].pc = "save", ![b].answer = some]
    BY <1>6 DEF CompanionAnswers
  <2> DEFINE new == [cardBatches[b] EXCEPT !.pc = "save", !.answer = some]
  <2>2. cardBatches' = [cardBatches EXCEPT ![b] = new] /\ cardBatches[b].pc = "asking" /\ UNCHANGED inFlight
    BY <1>2, <1>6, <2>1 DEF CompanionAnswers
  <2>3. new \in CardBatch /\ new.pc = "save" /\ new.owned = cardBatches[b].owned
    BY <1>2 DEF CardBatch, BatchSteps
  <2> HIDE DEF new
  <2> QED
    BY <1>5, <2>2, <2>3
<1>7. CASE CompanionFails(b)
  <2> DEFINE new == [cardBatches[b] EXCEPT !.pc = "release"]
  <2>1. cardBatches' = [cardBatches EXCEPT ![b] = new] /\ cardBatches[b].pc = "asking" /\ UNCHANGED inFlight
    BY <1>2, <1>7 DEF CompanionFails, CardsGo
  <2>2. new \in CardBatch /\ new.pc = "release" /\ new.owned = cardBatches[b].owned
    BY <1>2 DEF CardBatch, BatchSteps
  <2> HIDE DEF new
  <2> QED
    BY <1>5, <2>1, <2>2
<1>8. CASE ReleaseTitles(b)
  <2> DEFINE new == [cardBatches[b] EXCEPT !.pc = "reread"]
  <2>1. /\ cardBatches' = [cardBatches EXCEPT ![b] = new] /\ cardBatches[b].pc = "release"
        /\ inFlight' = inFlight \ cardBatches[b].owned
    BY <1>2, <1>8 DEF ReleaseTitles, CardsGo, TitlesLeft
  <2>2. new \in CardBatch /\ new.pc = "reread"
    BY <1>2 DEF CardBatch, BatchSteps
  <2> HIDE DEF new
  <2> QED
    BY <1>5, <2>1, <2>2
<1>9. CASE ReadCacheAgain(b)
  <2> DEFINE readRows == CachedOf(Titles(cardBatches[b]))
             new == [cardBatches[b] EXCEPT !.pc = "sanitize", !.asked = TRUE, !.cache = readRows]
  <2>1. /\ cardBatches' = [cardBatches EXCEPT ![b] = new] /\ cardBatches[b].pc = "reread" /\ UNCHANGED inFlight
    BY <1>2, <1>9 DEF ReadCacheAgain
  <2>2. /\ readRows \in RatingRows /\ DOMAIN readRows \subseteq DOMAIN ratingCache
        /\ \A t \in DOMAIN readRows : readRows[t] = ratingCache[t]
    BY <1>2, CachedIs DEF CardsInv
  <2> HIDE DEF readRows
  <2>3. new \in CardBatch /\ new.pc = "sanitize" /\ new.cache = readRows
    BY <1>2, <2>2 DEF CardBatch, BatchSteps
  <2> HIDE DEF new
  <2>4. \A t \in DOMAIN new.cache : new.cache[t].current = FALSE =>
          new.cache[t].fetched = 0 /\ (t \in DOMAIN ratingCache' \/ ExpireRatings < cardTime)
    BY <1>1, <2>2, <2>3 DEF CardsInv, EarlierInv
  <2> QED
    BY <1>5, <2>1, <2>3, <2>4
<1>10. CASE AnswerCards(b)
  <2>1. /\ cardBatches' = [cardBatches EXCEPT ![b] = NoBatch] /\ cardBatches[b].pc = "answer"
        /\ UNCHANGED inFlight
    BY <1>10 DEF AnswerCards
  <2>2. NoBatch.pc = "idle"
    BY DEF NoBatch
  <2> QED
    BY <1>5, <2>1, <2>2
<1> QED
  BY <1>6, <1>7, <1>8, <1>9, <1>10

LEMMA BatchCommits ==
  ASSUME CardRatingsAssumption, CardsInv, NEW b \in RatingBatches, CommitRatings(b)
  PROVE  CardsInv' /\ FetchedRatingsStay
<1> DEFINE answer == cardBatches[b].answer
           written == [t \in answer |-> [fetched |-> cardTime, current |-> TRUE, session |-> cardBatches[b].session]]
           new == [cardBatches[b] EXCEPT !.pc = "release"]
<1>1. /\ cardBatches[b].pc = "save" /\ cardBatches[b] \in CardBatch
      /\ cardBatches \in [RatingBatches -> CardBatch \cup {NoBatch}]
  BY BatchIs DEF CommitRatings, CardsInv, CardsKnown
<1>2. /\ cardBatches' = [cardBatches EXCEPT ![b] = new] /\ UNCHANGED <<inFlight, cardTime, ratingSession, batchCount>>
      /\ ratingCache' = IF cardBatches[b].session = ratingSession THEN SavedRows(written) ELSE ratingCache
  BY <1>1 DEF CommitRatings, CardsGo, InItsSession
<1>3. new \in CardBatch /\ new.pc = "release" /\ new.owned = cardBatches[b].owned
  BY <1>1 DEF CardBatch, BatchSteps
<1>4. /\ cardTime \in 0 .. MaxCardTime /\ cardTime \in Nat /\ ExpireRatings \in Nat
      /\ answer \in SUBSET CardTitles /\ cardBatches[b].session \in 0 .. MaxRatingSessions
  BY <1>1 DEF CardsInv, CardsKnown, CardBatch, CardRatingsAssumption
<1>5. /\ written \in RatingRows /\ DOMAIN written = answer
      /\ \A t \in answer : /\ written[t].current = TRUE /\ written[t].fetched = cardTime
                           /\ written[t].session = cardBatches[b].session
  <2>1. written \in [answer -> CachedRatings]
    BY <1>4 DEF CachedRatings
  <2>2. written \in RatingRows
    BY <1>4, <2>1 DEF RatingRows
  <2> QED
    BY <2>2
<1> HIDE DEF answer, written, new
<1>6. /\ ratingCache' \in RatingRows /\ RowsStay
      /\ \A t \in DOMAIN ratingCache' :
           /\ ratingCache'[t].fetched <= cardTime
           /\ ratingCache'[t].current = FALSE => ratingCache'[t].fetched = 0
  <2>1. CASE ratingCache' = ratingCache
    BY <2>1, CacheAlone
  <2>2. CASE ratingCache' = SavedRows(written)
    <3>1. \A t \in DOMAIN written : written[t].current = TRUE /\ written[t].fetched <= cardTime
      BY <1>4, <1>5
    <3> QED
      BY <1>5, <2>2, <3>1, RowsWritten
  <2> QED
    BY <1>2, <2>1, <2>2
<1>7. /\ CardsKnown' /\ EarlierInv'
      /\ cardBatches'[b] = new /\ \A a \in RatingBatches : a # b => cardBatches'[a] = cardBatches[a]
  <2>1. inFlight' \subseteq CardTitles /\ batchCount' \in 0 .. MaxRatingBatches
    BY <1>2 DEF CardsInv, CardsKnown
  <2>2. UNCHANGED <<cardTime, ratingSession>> /\ new.pc # "sanitize"
    BY <1>2, <1>3
  <2> QED
    BY <1>2, <1>3, <1>6, <2>1, <2>2, BatchMoves
<1>8. TitlesAreAskedOnce'
  <2>1. Holding(b) /\ Holding(b)' /\ cardBatches'[b].owned = cardBatches[b].owned /\ UNCHANGED inFlight
    BY <1>1, <1>2, <1>3, <1>7 DEF Holding
  <2> QED
    BY <1>7, <2>1, ClaimsAreKept
<1>9. FetchedRatingsStay
  <2>1. CASE ratingCache' = ratingCache
    BY <2>1, CacheAlone
  <2>2. CASE ratingCache' = SavedRows(written) /\ cardBatches[b].session = ratingSession
    <3>1. ratingCache \in RatingRows /\ \A t \in DOMAIN ratingCache :
            ratingCache[t].fetched \in Nat /\ ratingCache[t].fetched <= cardTime
      BY RowsIs DEF CardsInv, CardsKnown, EarlierInv
    <3>2. /\ DOMAIN ratingCache' \subseteq DOMAIN ratingCache \cup answer
          /\ \A t \in DOMAIN ratingCache' :
               ratingCache'[t] = IF t \in answer THEN written[t] ELSE ratingCache[t]
          /\ \A t \in DOMAIN ratingCache \ answer :
               t \in DOMAIN ratingCache' \/ ~(cardTime <= ratingCache[t].fetched + ExpireRatings)
          /\ \A t \in answer : t \in DOMAIN ratingCache' <=> cardTime <= written[t].fetched + ExpireRatings
      BY <1>5, <2>2, <3>1, SavedIs
    <3>3. ASSUME NEW t \in DOMAIN ratingCache
          PROVE  \/ t \in DOMAIN ratingCache' /\ ratingCache'[t].fetched >= ratingCache[t].fetched
                 \/ ratingCache[t].fetched + ExpireRatings < cardTime
      <4>1. CASE t \in answer
        BY <1>4, <1>5, <3>1, <3>2, <4>1
      <4>2. CASE t \notin answer
        BY <1>4, <3>1, <3>2, <4>2
      <4> QED
        BY <4>1, <4>2
    <3>4. ASSUME NEW t \in DOMAIN ratingCache',
                 t \notin DOMAIN ratingCache \/ ratingCache'[t].fetched > ratingCache[t].fetched
          PROVE  ratingCache'[t].session = ratingSession
      <4>1. t \in answer
        BY <3>1, <3>2, <3>4
      <4> QED
        BY <1>5, <2>2, <3>2, <4>1
    <3> QED
      BY <1>2, <3>3, <3>4 DEF FetchedRatingsStay
  <2> QED
    BY <1>2, <2>1, <2>2
<1> QED
  BY <1>7, <1>8, <1>9 DEF CardsInv

LEMMA CardsTimeAndSession ==
  ASSUME CardRatingsAssumption, CardsInv, CardTimePasses \/ RatingSessionChanges
  PROVE  CardsInv' /\ FetchedRatingsStay
<1>1. /\ UNCHANGED <<ratingCache, inFlight, cardBatches, batchCount>>
      /\ \/ cardTime' = cardTime + 1 /\ cardTime < MaxCardTime /\ UNCHANGED ratingSession
         \/ /\ ratingSession' = ratingSession + 1 /\ ratingSession < MaxRatingSessions
            /\ UNCHANGED cardTime
  BY DEF CardTimePasses, RatingSessionChanges
<1>2. /\ cardTime \in 0 .. MaxCardTime /\ ratingSession \in 0 .. MaxRatingSessions
      /\ MaxCardTime \in Nat /\ MaxRatingSessions \in Nat
  BY DEF CardsInv, CardsKnown, CardRatingsAssumption
<1>3. /\ cardTime' \in 0 .. MaxCardTime /\ ratingSession' \in 0 .. MaxRatingSessions
      /\ cardTime' \in Nat /\ cardTime <= cardTime'
  BY <1>1, <1>2
<1>4. CardsKnown' /\ TitlesAreAskedOnce'
  BY <1>1, <1>3 DEF CardsInv, CardsKnown, TitlesAreAskedOnce, Holding
<1>5. RowsStay /\ FetchedRatingsStay
  BY <1>1, CacheAlone
<1>6. ASSUME NEW b \in RatingBatches, cardBatches'[b].pc = "sanitize",
             NEW t \in DOMAIN cardBatches'[b].cache, cardBatches'[b].cache[t].current = FALSE
      PROVE  /\ cardBatches'[b].cache[t].fetched = 0
             /\ t \in DOMAIN ratingCache' \/ ExpireRatings < cardTime'
  BY <1>1, <1>3, <1>5, <1>6, EarlierStays
<1>7. \A t \in DOMAIN ratingCache' :
        ratingCache'[t].fetched <= cardTime' /\ (ratingCache'[t].current = FALSE => ratingCache'[t].fetched = 0)
  <2>1. \A t \in DOMAIN ratingCache :
          /\ ratingCache[t].fetched \in Nat /\ ratingCache[t].fetched <= cardTime
          /\ ratingCache[t].current = FALSE => ratingCache[t].fetched = 0
    BY RowsIs DEF CardsInv, CardsKnown, EarlierInv
  <2> QED
    BY <1>1, <1>2, <1>3, <2>1
<1>8. EarlierInv'
  BY <1>6, <1>7 DEF EarlierInv
<1> QED
  BY <1>4, <1>5, <1>8 DEF CardsInv

LEMMA CardsInitially ==
  ASSUME CardRatingsAssumption, CardRatingsInit
  PROVE  CardsInv
<1>1. PICK old \in SUBSET CardTitles :
        ratingCache = [t \in old |-> [fetched |-> 0, current |-> FALSE, session |-> 0]]
  BY DEF CardRatingsInit
<1>2. /\ inFlight = {} /\ cardBatches = [b \in RatingBatches |-> NoBatch]
      /\ cardTime = 0 /\ ratingSession = 0 /\ batchCount = 0
  BY DEF CardRatingsInit
<1>3. /\ 0 \in 0 .. MaxCardTime /\ 0 \in 0 .. MaxRatingSessions /\ 0 \in 0 .. MaxRatingBatches
  BY DEF CardRatingsAssumption
<1>4. ratingCache \in [old -> CachedRatings]
  BY <1>1, <1>3 DEF CachedRatings
<1>5. ratingCache \in RatingRows
  BY <1>4 DEF RatingRows
<1>6. CardsKnown
  BY <1>2, <1>3, <1>5 DEF CardsKnown
<1>7. \A b \in RatingBatches : cardBatches[b].pc = "idle"
  BY <1>2 DEF NoBatch
<1>8. EarlierInv
  BY <1>1, <1>2, <1>7 DEF EarlierInv
<1>9. TitlesAreAskedOnce
  BY <1>2, <1>7 DEF TitlesAreAskedOnce, Holding
<1> QED
  BY <1>6, <1>8, <1>9 DEF CardsInv

LEMMA CardsStep ==
  ASSUME CardRatingsAssumption, CardsInv, [CardRatingsNext]_ratingCardVars
  PROVE  CardsInv' /\ [FetchedRatingsStay]_ratingCardVars
<1>1. CASE UNCHANGED ratingCardVars
  <2>1. UNCHANGED <<ratingCache, inFlight, cardBatches, cardTime, ratingSession, batchCount>>
    BY <1>1 DEF ratingCardVars
  <2>2. CardsKnown' /\ TitlesAreAskedOnce' /\ EarlierInv'
    BY <2>1 DEF CardsInv, CardsKnown, TitlesAreAskedOnce, Holding, EarlierInv
  <2> QED
    BY <1>1, <2>2 DEF CardsInv
<1>2. CASE CardTimePasses \/ RatingSessionChanges
  BY <1>2, CardsTimeAndSession
<1>3. ASSUME NEW b \in RatingBatches,
             \/ \E cards \in CardPages : StartBatch(b, cards)
             \/ SanitizeCached(b) \/ ClaimTitles(b) \/ CompanionAnswers(b) \/ CompanionFails(b)
             \/ CommitRatings(b) \/ ReleaseTitles(b) \/ ReadCacheAgain(b) \/ AnswerCards(b)
      PROVE  CardsInv' /\ FetchedRatingsStay
  BY <1>3, BatchBegins, BatchSanitizes, BatchClaims, BatchGoes, BatchCommits
<1> QED
  BY <1>1, <1>2, <1>3 DEF CardRatingsNext

LEMMA CardsInvHolds ==
  ASSUME CardRatingsAssumption
  PROVE  CardRatingsSpec => []CardsInv /\ [][FetchedRatingsStay]_ratingCardVars
<1>1. CardRatingsInit => CardsInv
  BY CardsInitially
<1>2. CardsInv /\ [CardRatingsNext]_ratingCardVars => CardsInv' /\ [FetchedRatingsStay]_ratingCardVars
  BY CardsStep
<1> QED
  BY <1>1, <1>2, PTL DEF CardRatingsSpec

(* A title is asked for by one batch at a time, and is free again when that batch is       *)
(* through, however it went (integrations/mdblist).                                        *)
THEOREM CardsAreAskedOnce ==
  ASSUME CardRatingsAssumption
  PROVE  CardRatingsSpec => [](CardRatingsTypeOK /\ TitlesAreAskedOnce)
<1>1. CardsInv => CardRatingsTypeOK /\ TitlesAreAskedOnce
  <2> SUFFICES ASSUME CardsInv PROVE CardRatingsTypeOK /\ TitlesAreAskedOnce
    OBVIOUS
  <2>1. /\ DOMAIN ratingCache \subseteq CardTitles
        /\ \A t \in DOMAIN ratingCache : ratingCache[t] \in CachedRatings
    BY RowsIs DEF CardsInv, CardsKnown
  <2> QED
    BY <2>1 DEF CardsInv, CardsKnown, CardRatingsTypeOK
<1> QED
  BY <1>1, CardsInvHolds, PTL

(* What was fetched lately is not lost to a batch that read the cache before, unless a row   *)
(* of an earlier version is rewritten; and no answer of an earlier session is cached in a    *)
(* later one (save_rating_cache, sanitize_cached).                                         *)
THEOREM FetchedCardRatingsStay ==
  ASSUME CardRatingsAssumption
  PROVE  CardRatingsSpec => [][FetchedRatingsStay]_ratingCardVars
BY CardsInvHolds, PTL

====
