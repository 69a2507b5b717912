----------------------------- MODULE PlaybackStart -----------------------------
(* Starting a playback: a choice of source and tracks that was saved for the title, or    *)
(* the languages of the account, become the request that mpv gets (jellyfin/play.rs,       *)
(* library/model.rs, api/media.rs).  The server's sources are asked for up to three times  *)
(* on the way, and the files behind them may be replaced at any time.                     *)
EXTENDS Integers, Sequences, FiniteSets, SequencesExt, FiniteSetsExt

CONSTANTS SourceLists,   \* what the server may list
          Viewings,      \* settings of the account: languages, original audio, subtitle mode
          Explicits,     \* options a page may ask for: a source, tracks, or nothing
          MaxReplacements, MaxPlays, MaxStartFaults   \* bounds

VARIABLES
  sources,       \* the server's list
  saved,         \* the choice saved for the title
  viewing,
  startPc, startOptions,
  request,       \* what mpv was asked to play last
  ghost,         \* how the request came about; raced: between two looks at the sources
  replacements, plays, startFaults
startVars == <<sources, saved, viewing, startPc, startOptions, request, ghost, replacements, plays, startFaults>>

Unset == 0
Off == -1
NoChoice == [source |-> "none"]
NothingAsked == [audio |-> Unset, subtitle |-> Unset, audioId |-> Unset, subtitleId |-> Unset, url |-> FALSE, of |-> << >>]
NoOptions == [id |-> "", place |-> Unset, audio |-> Unset, subtitle |-> Unset]
Asked == [by : {"nobody", "page", "choice", "languages", "server"}, raced : BOOLEAN, list : {<< >>} \cup SourceLists]
Sources == UNION {Range(list) : list \in SourceLists}
Indices == 0 .. Max({Len(s.streams) : s \in Sources})

StartTypeOK ==
  /\ sources \in SourceLists /\ viewing \in Viewings /\ ghost \in Asked
  /\ saved = NoChoice \/ /\ saved.source \in Sources /\ saved.audio \in 0 .. Len(saved.source.streams)
                         /\ saved.subtitle \in 0 .. Len(saved.source.streams)
  /\ startPc \in {"idle", "validate", "languages", "negotiate"}
  /\ {startOptions.audio, startOptions.subtitle, request.audio, request.subtitle} \subseteq Indices \cup {Off}
  /\ request.of \in {<< >>} \cup Sources

StartInit ==
  /\ sources \in SourceLists /\ saved = NoChoice /\ viewing \in Viewings
  /\ startPc = "idle" /\ startOptions = NoOptions /\ request = NothingAsked
  /\ ghost = [by |-> "nobody", raced |-> FALSE, list |-> << >>]
  /\ replacements = 0 /\ plays = 0 /\ startFaults = 0

(* Streams are addressed by their index in the file, from one. *)
OfType(source, kind) == {i \in DOMAIN source.streams : source.streams[i].kind = kind}
First(S) == IF S = {} THEN Unset ELSE Min(S)

-----------------------------------------------------------------------------
(* The server and the page.                                                              *)

ReplaceFiles ==
  /\ replacements < MaxReplacements /\ replacements' = replacements + 1
  /\ sources' \in SourceLists \ {sources}
  /\ ghost' = [ghost EXCEPT !.raced = @ \/ startPc # "idle"]
  /\ UNCHANGED <<saved, viewing, startPc, startOptions, request, plays, startFaults>>

(* set_item_playback_preference: the choice is kept with what its tracks are, from the     *)
(* list of that moment.  A source with audio has one chosen; no subtitle means off.        *)
SaveChoice(place, audio, subtitle) ==
  LET source == sources[place] IN
  /\ startPc = "idle" /\ plays = 0 /\ saved = NoChoice
  /\ audio \in OfType(source, "Audio") \/ (audio = Unset /\ OfType(source, "Audio") = {})
  /\ subtitle \in OfType(source, "Subtitle") \cup {Unset}
  /\ saved' = [source |-> source, place |-> place, audio |-> audio, subtitle |-> subtitle]
  /\ UNCHANGED <<sources, viewing, startPc, startOptions, request, ghost, replacements, plays, startFaults>>

-----------------------------------------------------------------------------
(* prepare.                                                                              *)

(* play_item, play_next: a page may name a source or tracks; then nothing else is used.    *)
Play(explicit) ==
  /\ startPc = "idle" /\ plays < MaxPlays /\ plays' = plays + 1
  /\ startOptions' = explicit
  /\ startPc' = IF explicit # NoOptions THEN "negotiate" ELSE IF saved # NoChoice THEN "validate" ELSE "languages"
  /\ ghost' = [by |-> IF explicit # NoOptions THEN "page" ELSE "server", raced |-> FALSE, list |-> << >>]
  /\ UNCHANGED <<sources, saved, viewing, request, replacements, startFaults>>

(* matching_source_index: by its id, or by name at the same place. *)
MatchingSource(choice) ==
  IF choice.source.id # "" THEN First({i \in DOMAIN sources : sources[i].id = choice.source.id})
  ELSE IF choice.place \in DOMAIN sources /\ sources[choice.place].name = choice.source.name THEN choice.place
  ELSE Unset

DefaultSource ==
  LET direct == {i \in DOMAIN sources : sources[i].direct}
  IN  IF direct # {} THEN Min(direct) ELSE 1

(* TrackPreference::matches: the index may be another stream's after a replacement.        *)
(* Mutant: the index is enough.                                                          *)
SameIndex(source, kind, choice, index) == IF index \in OfType(source, kind) THEN index ELSE Unset
MatchingStream(source, kind, choice, index) ==
  IF index \in OfType(source, kind) /\ source.streams[index] = choice.source.streams[index] THEN index ELSE Unset

Or(index, other) == IF index # Unset THEN index ELSE other

(* default_audio, default_subtitle; choose_stream without an index. *)
IsDefault(source, kind) == First({i \in OfType(source, kind) : source.streams[i].default})
DefaultAudio(source) ==
  Or(source.defaultAudio, Or(IsDefault(source, "Audio"), First(OfType(source, "Audio"))))
DefaultSubtitle(source) == source.defaultSubtitle

(* resolve_playback_preference, apply_saved_preference.                                  *)
(* Mutant: no subtitle is none asked for.                                                *)
OffIsUnset(subtitle) == subtitle
SubtitleOrOff(subtitle) == Or(subtitle, Off)
Resolved(choice) ==
  LET match == MatchingSource(choice)
      place == Or(match, DefaultSource)
      source == sources[place]
      audio == IF match = Unset \/ choice.audio = Unset THEN Unset
               ELSE MatchingStream(source, "Audio", choice, choice.audio)
      subtitle == CASE match = Unset -> DefaultSubtitle(source)
                    [] match # Unset /\ choice.subtitle = Unset -> Unset
                    [] OTHER -> Or(MatchingStream(source, "Subtitle", choice, choice.subtitle), DefaultSubtitle(source))
  IN [id |-> source.id, place |-> place, audio |-> Or(audio, DefaultAudio(source)), subtitle |-> SubtitleOrOff(subtitle)]

ValidateChoice ==
  /\ startPc = "validate" /\ startOptions' = Resolved(saved) /\ startPc' = "negotiate"
  /\ ghost' = [ghost EXCEPT !.by = "choice", !.list = sources]
  /\ UNCHANGED <<sources, saved, viewing, request, replacements, plays, startFaults>>

(* The sources could not be had: the languages are tried. *)
Faulty == startFaults < MaxStartFaults /\ startFaults' = startFaults + 1
ValidationFails ==
  /\ startPc = "validate" /\ Faulty /\ startPc' = "languages"
  /\ UNCHANGED <<sources, saved, viewing, startOptions, request, ghost, replacements, plays>>

(* language_matches, apply_language_defaults. *)
InRank(source, among, languages) ==
  LET fits(l) == {i \in among : source.streams[i].language = l}
      ranks == {n \in DOMAIN languages : fits(languages[n]) # {}}
  IN  IF ranks = {} THEN Unset ELSE Min(fits(languages[Min(ranks)]))
SelectedAudio(source) ==
  LET audio == OfType(source, "Audio")
      original == IF viewing.original THEN First({i \in audio : source.streams[i].original}) ELSE Unset
  IN  Or(original, InRank(source, audio, viewing.audio))

(* Whether the audio that is heard is in a language of the account's.  Mutant: whether some *)
(* audio is.                                                                             *)
SomeIsKnown(source) == \E i \in OfType(source, "Audio") : source.streams[i].language \in Range(viewing.audio)
AudioIsKnown(source) ==
  LET audio == Or(SelectedAudio(source), DefaultAudio(source))
  IN  audio # Unset /\ source.streams[audio].language \in Range(viewing.audio)

SelectedSubtitle(source) ==
  LET subtitles == {i \in OfType(source, "Subtitle") : viewing.mode = "forced" => source.streams[i].forced}
      default == First({i \in subtitles : source.streams[i].default})
  IN  Or(InRank(source, subtitles, viewing.subtitle), Or(default, First(subtitles)))
LanguageOptions(source) ==
  [id |-> source.id, place |-> 1, audio |-> SelectedAudio(source),
   subtitle |-> CASE viewing.mode = "server" -> Unset
                  [] viewing.mode = "off" \/ (viewing.mode = "foreign" /\ AudioIsKnown(source)) -> Off
                  [] OTHER -> Or(SelectedSubtitle(source), Off)]

WantsLanguages == viewing.audio # << >> \/ viewing.original \/ viewing.mode # "server"
ApplyLanguages ==
  /\ startPc = "languages" /\ startPc' = "negotiate"
  /\ IF WantsLanguages
       THEN \/ /\ startOptions' = LanguageOptions(sources[1]) /\ ghost' = [ghost EXCEPT !.by = "languages", !.list = sources]
               /\ UNCHANGED startFaults
            \/ Faulty /\ UNCHANGED <<startOptions, ghost>>
       ELSE UNCHANGED <<startOptions, ghost, startFaults>>
  /\ UNCHANGED <<sources, saved, viewing, request, replacements, plays>>

-----------------------------------------------------------------------------
(* build.                                                                                *)

(* select_source: a place only stands for a source without an id. *)
SelectedSource ==
  LET byId == First({i \in DOMAIN sources : startOptions.id # "" /\ sources[i].id = startOptions.id})
      byPlace == IF startOptions.id = "" /\ startOptions.place \in DOMAIN sources THEN startOptions.place ELSE Unset
  IN  sources[Or(byId, Or(byPlace, DefaultSource))]

ChooseStream(source, kind, index, default) ==
  IF index = Unset THEN default ELSE IF index \in OfType(source, kind) THEN index ELSE Unset

(* embedded_ordinal: mpv counts the tracks of a kind in the file; an external one is not    *)
(* among them.  Mutant: all are counted.                                                  *)
OrdinalOfAll(source, kind, index) ==
  IF index \notin OfType(source, kind) \/ source.streams[index].external THEN Unset
  ELSE Cardinality({i \in OfType(source, kind) : i <= index})
EmbeddedOrdinal(source, kind, index) ==
  IF index \notin OfType(source, kind) \/ source.streams[index].external THEN Unset
  ELSE Cardinality({i \in OfType(source, kind) : i <= index /\ ~source.streams[i].external})

Built(source) ==
  LET audio == ChooseStream(source, "Audio", startOptions.audio, DefaultAudio(source))
      subtitle == ChooseStream(source, "Subtitle", startOptions.subtitle, DefaultSubtitle(source))
      off == startOptions.subtitle = Off
  IN [audio |-> audio, audioId |-> EmbeddedOrdinal(source, "Audio", audio),
      subtitle |-> IF off THEN Off ELSE subtitle,
      subtitleId |-> IF off THEN Off ELSE EmbeddedOrdinal(source, "Subtitle", subtitle),
      url |-> ~off /\ subtitle # Unset /\ source.streams[subtitle].external, of |-> source]

(* playback_info, build, open. *)
Negotiate ==
  /\ startPc = "negotiate" /\ startPc' = "idle" /\ request' = Built(SelectedSource)
  /\ UNCHANGED <<sources, saved, viewing, startOptions, ghost, replacements, plays, startFaults>>

(* PlaybackInfo failed, the item is gone, or another account signed in: nothing is opened. *)
StartFails ==
  /\ startPc = "negotiate" /\ Faulty /\ startPc' = "idle"
  /\ UNCHANGED <<sources, saved, viewing, startOptions, request, ghost, replacements, plays>>

StartNext ==
  \/ ReplaceFiles \/ ValidateChoice \/ ValidationFails \/ ApplyLanguages \/ Negotiate \/ StartFails
  \/ \E p \in DOMAIN sources, a, s \in Indices : SaveChoice(p, a, s)
  \/ \E explicit \in Explicits : Play(explicit)

StartSpec == StartInit /\ [][StartNext]_startVars

-----------------------------------------------------------------------------
(* The track mpv plays when it is given an ordinal. *)
MpvTrack(source, kind, ordinal) ==
  CHOOSE i \in OfType(source, kind) :
    /\ ~source.streams[i].external
    /\ Cardinality({j \in OfType(source, kind) : j < i /\ ~source.streams[j].external}) = ordinal - 1

(* mpv plays what Jellyfin is told: the ordinals name the streams of the report. *)
PlaysWhatIsReported(q) ==
  /\ q.audio # Unset /\ ~q.of.streams[q.audio].external =>
       q.audioId # Unset /\ MpvTrack(q.of, "Audio", q.audioId) = q.audio
  /\ q.subtitle \notin {Unset, Off} =>
       IF q.of.streams[q.subtitle].external THEN q.url
       ELSE q.subtitleId # Unset /\ MpvTrack(q.of, "Subtitle", q.subtitleId) = q.subtitle
  /\ q.subtitle = Off => q.subtitleId = Off /\ ~q.url

(* A choice is kept while its file has the track, and an index alone is never taken for it. *)
KeepsTheChoice(q) ==
  LET file == saved.source
      same(i) == i \in DOMAIN q.of.streams /\ q.of.streams[i] = file.streams[i]
      there == IF saved.place \in DOMAIN ghost.list THEN ghost.list[saved.place] ELSE file
      sameFile == IF file.id # "" THEN q.of.id = file.id ELSE there = q.of /\ there.name = file.name
  IN /\ file \in Range(ghost.list) /\ file.id # "" => q.of.id = file.id
     /\ sameFile /\ saved.audio # Unset /\ same(saved.audio) => q.audio = saved.audio
     /\ sameFile /\ saved.subtitle # Unset /\ same(saved.subtitle) => q.subtitle = saved.subtitle
     /\ sameFile /\ saved.subtitle = Unset => q.subtitle = Off
     /\ q.audio = saved.audio /\ q.audio # Unset => same(q.audio) \/ q.audio = DefaultAudio(q.of)
     /\ q.subtitle = saved.subtitle => same(q.subtitle) \/ q.subtitle = DefaultSubtitle(q.of)

(* The languages of the account decide, for the audio that is heard. *)
FollowsTheLanguages(q) ==
  LET subtitles == OfType(q.of, "Subtitle")
      understood == q.audio # Unset /\ q.of.streams[q.audio].language \in Range(viewing.audio)
      shown == q.subtitle \in subtitles
  IN /\ viewing.mode = "off" => q.subtitle = Off
     /\ viewing.mode = "forced" => shown = (\E i \in subtitles : q.of.streams[i].forced)
     /\ viewing.mode = "forced" /\ shown => q.of.streams[q.subtitle].forced
     /\ viewing.mode = "foreign" => shown = (~understood /\ subtitles # {})
     /\ (\E i \in OfType(q.of, "Audio") : q.of.streams[i].language \in Range(viewing.audio)) =>
          understood \/ (viewing.original /\ q.of.streams[q.audio].original)

(* What is played is what was chosen, by the page, before, or with the account's languages, *)
(* whatever is replaced on the server until the playback starts, and mpv and Jellyfin hear  *)
(* of the same tracks (prepare, resolve_playback_preference, build).                      *)
PlaysAsChosen ==
  request # NothingAsked /\ startPc = "idle" =>
    /\ PlaysWhatIsReported(request)
    /\ ghost.by = "choice" /\ ~ghost.raced => KeepsTheChoice(request)
    /\ ghost.by = "languages" /\ ~ghost.raced => FollowsTheLanguages(request)
    /\ ghost.by = "page" /\ startOptions.subtitle = Off => request.subtitle = Off
=============================================================================
