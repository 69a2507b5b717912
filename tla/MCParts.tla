-------------------------------- MODULE MCParts --------------------------------
(* Parts that keep a promise at every step.  They share nothing a property looks at, so  *)
(* a behaviour moves one of them, the `focus`: one run for all.                          *)
EXTENDS Integers, Sequences, JsonDocument, Collections, EventSocket, CompanionProbe

CONSTANTS Accounts, None, MaxStepFaults, MaxStarts, MaxScopes, RatingKeys, MaxEntries,
          Savers, MaxUpserts, MaxWriteFaults, RatedTitles, Batches, Refreshers, Keys,
          FreshAge, MaxRatingsTime, MaxBatches, MaxAdminCalls, Statuses, TitleSeasons,
          CreditIds, MaxCredits, SkipFiles, FileSegments, StartOf, EndOfFile,
          AutoSkipDelay, MaxSkipTime, MaxModeChanges, MaxPlayerEvents, MaxStops,
          MaxSignIns, InstallRequests, MaxDownloads, MaxInstallCrashes, ShellThreads,
          uiThread, WindowBounds, MaxOpenFaults, MaxCloseRequests, MaxSettingChanges,
          Current, LegacyRows, MaxFileCrashes, MaxFileFaults, SourceLists, Viewings,
          Explicits, MaxReplacements, MaxPlays, MaxStartFaults, Patchers, installThread,
          MpvPaths, Bindings, MaxPatches, MaxPlayerStarts, MaxSaveFaults, BuiltIns,
          Genres, PreferredGenres, FreshGenres, HomeLibraries, Registries, Unregistered,
          HomeCollections, Unsaved, MaxHomeSaves, MaxHomeChanges, Members, MaxConnected,
          FeedTtl, MaxFeedAge, ProfileCallers, ReviewReaders, MaxReviewCalls, Entries,
          MaxReviewTime, CachedItems, ItemRows, TmdbOf, ProviderLists, FranchiseParts,
          MaxAsked, CardPages, TitleOf, RatingBatches, FreshRatings, ExpireRatings,
          ScaleMax, NoNumber, MaxRatingBatches, MaxCardTime, MaxRatingSessions,
          Playbacks, Silent, MaxQueue, MaxFaults, MaxTimeouts

(* Which part moves, and the variables it moves: of each part the first ones, in the    *)
(* order its module declares them. *)
VARIABLES focus, x1, x2, x3, x4, x5, x6, x7, x8, x9, x10, x11, x12, x13, x14, x15, x16,
          x17, x18, x19, x20, x21, x22, x23, x24, x25, x26

Account == INSTANCE AccountData WITH acct <- x1, deleting <- x2, active <- x3,
           doc <- x4, backup <- x5, rows <- x6, posters <- x7, journal <- x8,
           auth <- x9, resuming <- x10, scope <- x11, refresh <- x12, stepFaults <- x13,
           starts <- x14, scopes <- x15, erased <- x16, failedHere <- x17,
           misfiled <- x18, putBack <- x19
Cache == INSTANCE ProviderCache WITH document <- x1, cacheFile <- x2, cacheDirty <- x3,
         saveScheduled <- x4, disposed <- x5, saver <- x6, upserts <- x7,
         writeFaults <- x8
Shared == INSTANCE Ratings WITH ratingsClock <- x1, fetchTime <- x2, key <- x3,
          health <- x4, refreshGate <- x5, asker <- x6, claimed <- x7, admin <- x8,
          batches <- x9, adminCalls <- x10
Seerr == INSTANCE SeerrTitles WITH title <- x1
Skipping == INSTANCE SegmentSkip WITH skipMode <- x1, file <- x2, phase <- x3,
            fetching <- x4, listOf <- x5, used <- x6, place <- x7, startupSeek <- x8,
            seekFrom <- x9, waiting <- x10, handled <- x11, skipClock <- x12,
            modeChanges <- x13, skips <- x14, stayed <- x15
Events == INSTANCE PlaybackEvents WITH emitted <- x1, taken <- x2, pendingState <- x3,
          deadline <- x4, uiTasks <- x5, heard <- x6, reports <- x7, progress <- x8,
          cached <- x9, mirrors <- x10, signIns <- x11, cycleAsked <- x12
Setup == INSTANCE Installs WITH windows <- x1, updateAvailable <- x2,
         updateStarted <- x3, downloads <- x4, updateTasks <- x5, installer <- x6,
         mpvStarted <- x7, setup <- x8, mpvDir <- x9, newDir <- x10, oldDir <- x11,
         setupTasks <- x12, answers <- x13, mpvPath <- x14, hadMpv <- x15,
         spoilt <- x16, installCrashes <- x17
Program == INSTANCE Shell WITH startHidden <- x1, overlayWanted <- x2, linux <- x3,
           initLock <- x4, initAt <- x5, servicesOpen <- x6, servicesOn <- x7,
           opened <- x8, window <- x9, host <- x10, ready <- x11, revealAsked <- x12,
           revealed <- x13, minimized <- x14, minimizes <- x15, browserIs <- x16,
           unsaved <- x17, forced <- x18, playerUp <- x19, quit <- x20, placed <- x21,
           liveBounds <- x22, savedBounds <- x23, openFaults <- x24,
           closeRequests <- x25, settingChanges <- x26
File == INSTANCE LibraryFile WITH version <- x1, tables <- x2, hasDevice <- x3,
        hasSession <- x4, rowsIn <- x5, accountFiles <- x6, opening <- x7,
        savedSession <- x8, savedRows <- x9, made <- x10, wasSignedIn <- x11,
        foundRows <- x12, oldVersion <- x13, fileCrashes <- x14, fileFaults <- x15
Starting == INSTANCE PlaybackStart WITH sources <- x1, saved <- x2, viewing <- x3,
            startPc <- x4, startOptions <- x5, request <- x6, ghost <- x7,
            replacements <- x8, plays <- x9, startFaults <- x10
Prefs == INSTANCE PlayerSettings WITH settings <- x1, settingsFile <- x2, unsent <- x3,
         announced <- x4, shellSettings <- x5, player <- x6, windowModel <- x7,
         openedWith <- x8, patches <- x9, playerStarts <- x10, saveFaults <- x11,
         restartAsked <- x12, announcedLate <- x13
Home == INSTANCE HomeLayout WITH home <- x1, genres <- x2, registry <- x3,
        collections <- x4, homePage <- x5, homeRequest <- x6, leaving <- x7,
        homeSaves <- x8, homeChanges <- x9
Feeds == INSTANCE Letterboxd WITH connected <- x1, profileCalls <- x2, lookups <- x3,
         feedCache <- x4, reviewNow <- x5, profileSession <- x6, reviewCalls <- x7
Owned == INSTANCE OwnedTitles WITH rows <- x1, mappings <- x2, asking <- x3,
         complete <- x4, mine <- x5, restricted <- x6, unreleased <- x7, results <- x8
Cards == INSTANCE CardRatings WITH ratingCache <- x1, inFlight <- x2, cardBatches <- x3,
         cardTime <- x4, ratingSession <- x5, batchCount <- x6
P == INSTANCE Player WITH rx <- x1, batch <- x2, turn <- x3, flush <- x4, started <- x5,
     stopped <- x6, last <- x7, ctl <- x8, pc <- x9, incoming <- x10, mpv <- x11,
     events <- x12, asked <- x13, exiting <- x14, faults <- x15, timeouts <- x16,
     misled <- x17

(* What each part takes for granted of its constants. *)
ASSUME PartsAssumption == Account!AccountDataAssumption /\
  Cache!ProviderCacheAssumption /\ Shared!RatingsAssumption /\
  Seerr!SeerrTitlesAssumption /\ Skipping!SegmentAssumption /\
  Events!EventsAssumption /\ Setup!InstallsAssumption /\ Program!ShellAssumption /\
  File!LibraryFileAssumption /\ Home!HomeAssumption /\ Feeds!LetterboxdAssumption /\
  Prefs!PreferencesAssumption /\ Owned!OwnedTitlesAssumption /\ Cards!CardRatingsAssumption

allVars == <<focus, x1, x2, x3, x4, x5, x6, x7, x8, x9, x10, x11, x12, x13, x14, x15,
            x16, x17, x18, x19, x20, x21, x22, x23, x24, x25, x26, jsonVars,
            collectionVars, socketVars, companionVars>>

(* A part of n variables does not use the others. *)
Unused(n) ==
  /\ IF n < 1 THEN x1 = 0 ELSE TRUE
  /\ IF n < 2 THEN x2 = 0 ELSE TRUE
  /\ IF n < 3 THEN x3 = 0 ELSE TRUE
  /\ IF n < 4 THEN x4 = 0 ELSE TRUE
  /\ IF n < 5 THEN x5 = 0 ELSE TRUE
  /\ IF n < 6 THEN x6 = 0 ELSE TRUE
  /\ IF n < 7 THEN x7 = 0 ELSE TRUE
  /\ IF n < 8 THEN x8 = 0 ELSE TRUE
  /\ IF n < 9 THEN x9 = 0 ELSE TRUE
  /\ IF n < 10 THEN x10 = 0 ELSE TRUE
  /\ IF n < 11 THEN x11 = 0 ELSE TRUE
  /\ IF n < 12 THEN x12 = 0 ELSE TRUE
  /\ IF n < 13 THEN x13 = 0 ELSE TRUE
  /\ IF n < 14 THEN x14 = 0 ELSE TRUE
  /\ IF n < 15 THEN x15 = 0 ELSE TRUE
  /\ IF n < 16 THEN x16 = 0 ELSE TRUE
  /\ IF n < 17 THEN x17 = 0 ELSE TRUE
  /\ IF n < 18 THEN x18 = 0 ELSE TRUE
  /\ IF n < 19 THEN x19 = 0 ELSE TRUE
  /\ IF n < 20 THEN x20 = 0 ELSE TRUE
  /\ IF n < 21 THEN x21 = 0 ELSE TRUE
  /\ IF n < 22 THEN x22 = 0 ELSE TRUE
  /\ IF n < 23 THEN x23 = 0 ELSE TRUE
  /\ IF n < 24 THEN x24 = 0 ELSE TRUE
  /\ IF n < 25 THEN x25 = 0 ELSE TRUE
  /\ IF n < 26 THEN x26 = 0 ELSE TRUE

(* The variables after the first n. *)
after19 == <<x20, x21, x22, x23, x24, x25, x26>>
after17 == <<x18, x19, after19>>
after15 == <<x16, x17, after17>>
after13 == <<x14, x15, after15>>
after12 == <<x13, after13>>
after10 == <<x11, x12, after12>>
after9 == <<x10, after10>>
after8 == <<x9, after9>>
after7 == <<x8, after8>>
after6 == <<x7, after7>>
after1 == <<x2, x3, x4, x5, x6, after6>>
after0 == <<x1, after1>>

(* File 1 has an intro and credits that overlap, file 2, resumed inside it, an intro. *)
MCFileSegments == << << [kind |-> "intro", from |-> 0, to |-> 2], [kind |-> "outro", from |-> 1, to |-> 3] >>,
                     << [kind |-> "intro", from |-> 1, to |-> 2] >> >>
MCStartOf == <<0, 1>>

(* Versions of the file of one title, and what the server may list for it. *)
Stream(kind, language, external) ==
  [kind |-> kind, language |-> language, external |-> external,
   forced |-> FALSE, original |-> FALSE, default |-> FALSE]
English == Stream("Audio", "en", FALSE)
Japanese == [Stream("Audio", "ja", FALSE) EXCEPT !.original = TRUE]
Subtitled == Stream("Subtitle", "en", FALSE)
Beside == Stream("Subtitle", "en", TRUE)
ForcedOnly == [Stream("Subtitle", "ja", FALSE) EXCEPT !.forced = TRUE]
Source(id, name, direct, streams, subtitle) ==
  [id |-> id, name |-> name, direct |-> direct, streams |-> streams,
   defaultAudio |-> 0, defaultSubtitle |-> subtitle]
Original == Source("x", "m", TRUE, <<English, Japanese, Beside, Subtitled>>, 0)
Replaced == Source("x", "m", TRUE,
                   <<Beside, Japanese, [English EXCEPT !.default = TRUE], Subtitled, ForcedOnly>>, 4)
Nameless == Source("", "m", TRUE, <<Japanese, English, ForcedOnly>>, 3)
Transcoded == Source("", "other", FALSE, <<English>>, 0)
MCSourceLists == {<<Original>>, <<Replaced>>, <<Nameless>>, <<Transcoded, Original>>,
                  <<Nameless, Transcoded>>, <<Nameless, Replaced>>}
Viewing(audio, original, mode) ==
  [audio |-> audio, subtitle |-> <<"en">>, original |-> original, mode |-> mode]
MCViewings == {Viewing(<<"ja", "en">>, FALSE, "server"), Viewing(<< >>, FALSE, "off"),
               Viewing(<<"en">>, FALSE, "foreign"), Viewing(<<"en">>, TRUE, "foreign"),
               Viewing(<< >>, FALSE, "forced"), Viewing(<<"fr">>, FALSE, "foreign")}
Options(id, place, audio, subtitle) ==
  [id |-> id, place |-> place, audio |-> audio, subtitle |-> subtitle]
MCExplicits == {Options("", 0, 0, 0), Options("", 0, 0, -1), Options("x", 2, 2, 0)}

(* What the two users' servers have: the plugin, nothing, a newer plugin. *)
OnlyFirst == [u1 |-> "supported", u2 |-> "none"]
MCInstalled == {OnlyFirst, [OnlyFirst EXCEPT !.u2 = "supported"], [OnlyFirst EXCEPT !.u2 = "newer"]}

(* Keys of the mark-watched shortcut and of another: they may be the same. *)
MCBindings == {<<"w", "j">>, <<"w", "w">>}

(* Home of two rows that are always there, two genres and two libraries. *)
MCBuiltIns == <<"watching", "added">>
MCGenres == <<"action", "drama">>
MCPreferred == <<"drama">>
MCRegistries == {Unregistered, << >>, <<"l1">>, <<"l2", "l1">>}

(* Two cards of one title are never on screen together, a third is beside one of them. *)
MCCardPages == {{"library"}, {"found", "other"}}
MCTitleOf == [card \in {"library", "found", "other"} |-> IF card = "other" THEN 2 ELSE 1]
MCScaleMax == [imdb |-> 10, letterboxd |-> 5]

(* Items with an id of TMDB, with another id only, and with both; titles of both kinds,  *)
(* twice and for adults; franchises with titles to come and without a date.             *)
Row(kind, tmdb, imdb, tvdb) == [kind |-> kind, tmdb |-> tmdb, imdb |-> imdb, tvdb |-> tvdb]
MCItemRows == {Row("Movie", 1, 0, 0), Row("Movie", 0, 1, 0), Row("Movie", 2, 1, 0),
               Row("Series", 1, 0, 2), Row("Series", 0, 0, 1)}
Secondary(kind, provider) == [kind |-> kind, provider |-> provider, id |-> 1]
MCTmdbOf == [s \in {Secondary("Movie", "imdb"), Secondary("Series", "tvdb"), Secondary("Series", "imdb")} |->
               IF s.kind = "Movie" THEN 1 ELSE IF s.provider = "tvdb" THEN 2 ELSE 0]
Listing(kind, tmdb, order, date) ==
  [kind |-> kind, tmdb |-> tmdb, order |-> order, date |-> date, adult |-> FALSE]
Adult(tmdb, order) == [Listing("Movie", tmdb, order, 1) EXCEPT !.adult = TRUE]
MCProviderLists ==
  {<<Listing("Movie", 2, 2, 1), Listing("Movie", 1, 1, 1), Listing("Series", 2, 3, 0), Adult(2, 4)>>,
   <<Listing("Series", 1, 1, 1), Listing("Series", 1, 2, 1), Listing("Movie", 1, 3, 1)>>}
MCFranchiseParts ==
  << <<Listing("Movie", 1, 1, 2), Listing("Movie", 2, 2, 1), Listing("Movie", 3, 3, 0)>>,
     <<Listing("Movie", 1, 1, 1), Listing("Movie", 3, 2, 2), Adult(4, 3)>> >>

(* A deletion is final, the settings are those of the account, Home is kept, and so are *)
(* the Letterboxd profiles; a feed is parsed to what is newest in it (AccountData,      *)
(* HomeLayout, Letterboxd).                                                             *)
AccountsAreSafe ==
  /\ Feeds!FeedsAreParsed
  /\ [](/\ focus = "account" => /\ Account!NoSettingsAfterDeletion
                                /\ Account!DeletionIsNotForgotten
                                /\ Account!SettingsFollowTheSession
        /\ focus = "home" => Home!HomeIsWhole /\ Home!NewLibrariesJoin
        /\ focus = "letterboxd" => Feeds!ProfilesAreStorable)
  /\ [][/\ focus = "account" => Account!DeletionSparesOthers
        /\ focus = "home" => Home!ChoicesAreKept
        /\ focus = "letterboxd" => Feeds!ProfilesKeepIdentity /\ Feeds!ReviewsAreRecent]_allVars

(* Ratings are asked for once and not lost, in the plugin and in the program (Ratings,  *)
(* CardRatings).                                                                        *)
RatingsAreShared ==
  /\ [](/\ focus = "cards" /\ Cards!NothingAsked => Cards!RatingsNormalizeOnce
        /\ focus = "ratings" => Shared!AnsweredOrTold /\ Shared!ClaimedIsRefreshed
        /\ focus = "cards" => Cards!TitlesAreAskedOnce)
  /\ [][/\ focus = "ratings" => Shared!NotAskedTwice
        /\ focus = "cards" => Cards!FetchedRatingsStay]_allVars

(* Caches and the library's file survive crashes and damage (ProviderCache,             *)
(* LibraryFile).                                                                        *)
FilesAreSafe ==
  /\ [](/\ focus = "cache" => Cache!NoChangeIsForgotten
        /\ focus = "library" => File!FileOpensWhole)
  /\ [][focus = "cache" => Cache!FileNeverGoesBack]_allVars

(* Segments are skipped as wanted, a page hears what the player did, a file starts with *)
(* the tracks chosen for it, and the player runs by the settings (SegmentSkip,          *)
(* PlaybackEvents, PlaybackStart, PlayerSettings).                                      *)
PlaybackIsFollowed ==
  /\ [](/\ focus = "segments" => Skipping!SkippedOnce
        /\ focus = "events" => Events!PageFollowsPlayer
        /\ focus = "start" => Starting!PlaysAsChosen
        /\ focus = "settings" => Prefs!PlayerRunsBySettings)
  /\ [][/\ focus = "segments" => Skipping!SkipsAreWanted
        /\ focus = "events" => Events!MirrorsFollowReports]_allVars

(* The program starts, shows and ends as it should, and installs one thing at a time    *)
(* (Shell, Installs).                                                                   *)
ProgramIsSound ==
  /\ [](/\ focus = "shell" => Program!ShellIsSound
        /\ focus = "installs" => Setup!InstallsAreSound)
  /\ [][focus = "shell" => Program!ClosesAsAgreed]_allVars

(* What is reported as playing is what mpv has, or its end is on its way; and a replaced *)
(* file's stop spares the load that replaced it, also when the end of an unreported      *)
(* playback is on its way as well (events.rs, playback_transition.rs).                   *)
ReportsFollowMpv ==
  /\ [](focus = "player" => P!PlayingIsOpen)
  /\ [][focus = "player" => P!OldStopSparesLoad]_allVars

(* A title's state and crew are shown as Seerr has them, and every page says the same of *)
(* what the library has (SeerrTitles, OwnedTitles).                                     *)
TitlesAreTrue ==
  /\ focus = "title" => Seerr!ShownAsSeerrHasIt
  /\ focus = "owned" => Owned!OwnershipIsTrue

(* The focus and the variables it uses. *)
SharedInit ==
  \/ focus = "account" /\ Account!AccountInit /\ Unused(19)
  \/ focus = "cache" /\ Cache!CacheInit /\ Unused(8)
  \/ focus = "ratings" /\ Shared!RatingsInit /\ Unused(10)
  \/ focus = "title" /\ Seerr!TitleInit /\ Unused(1)
  \/ focus = "segments" /\ Skipping!SegmentInit /\ Unused(15)
  \/ focus = "events" /\ Events!EventsInit /\ Unused(12)
  \/ focus = "installs" /\ Setup!InstallsInit /\ Unused(17)
  \/ focus = "shell" /\ Program!ShellInit /\ Unused(26)
  \/ focus = "library" /\ File!LibraryFileInit /\ Unused(15)
  \/ focus = "start" /\ Starting!StartInit /\ Unused(10)
  \/ focus = "settings" /\ Prefs!PreferencesInit /\ Unused(13)
  \/ focus = "home" /\ Home!HomeInit /\ Unused(9)
  \/ focus = "letterboxd" /\ Feeds!LetterboxdInit /\ Unused(7)
  \/ focus = "owned" /\ Owned!OwnedInit /\ Unused(8)
  \/ focus = "cards" /\ Cards!CardRatingsInit /\ Unused(6)
  \/ focus = "player" /\ P!Init /\ Unused(17)
  \/ focus \in {"document", "collections", "socket", "companion"} /\ Unused(0)

Init ==
  /\ SharedInit
  /\ JsonInit
  /\ CollectionsInit
  /\ SocketInit
  /\ CompanionInit /\ (focus # "companion" => user = NoUser /\ plugin = OnlyFirst)

(* A step A of a part that uses the shared variables but `rest`. *)
In(part, rest, A) == focus = part /\ A /\ UNCHANGED <<focus, rest, jsonVars, collectionVars, socketVars, companionVars>>

Next ==
  \/ In("account", after19, Account!AccountNext)
  \/ In("cache", after8, Cache!CacheNext)
  \/ In("ratings", after10, Shared!RatingsNext)
  \/ In("segments", after15, Skipping!SegmentNext)
  \/ In("events", after12, Events!EventsNext)
  \/ In("installs", after17, Setup!InstallsNext)
  \/ In("shell", << >>, Program!ShellNext)
  \/ In("library", after15, File!LibraryFileNext)
  \/ In("start", after10, Starting!StartNext)
  \/ In("settings", after13, Prefs!PreferencesNext)
  \/ In("home", after9, Home!HomeNext)
  \/ In("letterboxd", after7, Feeds!LetterboxdNext)
  \/ In("owned", after8, Owned!OwnedNext)
  \/ In("cards", after6, Cards!CardRatingsNext)
  \/ In("player", after17, P!Next)
  \/ focus = "document" /\ JsonNext /\ UNCHANGED <<focus, after0, collectionVars, socketVars, companionVars>>
  \/ focus = "collections" /\ CollectionsNext /\ UNCHANGED <<focus, after0, jsonVars, socketVars, companionVars>>
  \/ focus = "socket" /\ SocketNext /\ UNCHANGED <<focus, after0, jsonVars, collectionVars, companionVars>>
  \/ focus = "companion" /\ CompanionNext /\ UNCHANGED <<focus, after0, jsonVars, collectionVars, socketVars>>

Spec == Init /\ [][Next]_allVars

(* The state of the part that moves is of its type. *)
TypesOK ==
  CASE focus = "account" -> Account!AccountTypeOK
    [] focus = "cache" -> Cache!CacheTypeOK
    [] focus = "ratings" -> Shared!RatingsTypeOK
    [] focus = "segments" -> Skipping!SegmentTypeOK
    [] focus = "events" -> Events!EventsTypeOK
    [] focus = "installs" -> Setup!InstallsTypeOK
    [] focus = "shell" -> Program!ShellTypeOK
    [] focus = "library" -> File!LibraryFileTypeOK
    [] focus = "start" -> Starting!StartTypeOK
    [] focus = "settings" -> Prefs!PreferencesTypeOK
    [] focus = "home" -> Home!HomeTypeOK
    [] focus = "letterboxd" -> Feeds!LetterboxdTypeOK
    [] focus = "owned" -> Owned!OwnedTypeOK
    [] focus = "cards" -> Cards!CardRatingsTypeOK
    [] focus = "player" -> P!TypeOK
    [] focus = "document" -> JsonTypeOK
    [] focus = "collections" -> CollectionsTypeOK
    [] focus = "socket" -> SocketTypeOK
    [] focus = "companion" -> CompanionTypeOK
    [] OTHER -> TRUE
================================================================================
