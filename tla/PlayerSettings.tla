------------------------------ MODULE PlayerSettings ------------------------------
(* The settings of the device and the player that runs by them: pages patch them from     *)
(* threads of their own, an installation names its mpv, the shell hears of each change     *)
(* over a channel and configures or rebuilds the player, and a start reads the file again  *)
(* (preferences/service.rs, store.rs, model.rs; shell/cef/events.rs; playback/coordinator). *)
EXTENDS Integers, Sequences, Functions

CONSTANTS Patchers,        \* threads that patch: those that answer pages, and
          installThread,        \* the shell's, at the end of an installation
          MpvPaths,
          Bindings,        \* keys of the mark-watched shortcut and of a comfort shortcut
          MaxPatches, MaxPlayerStarts, MaxSaveFaults   \* bounds

Unnamed == "unset"
Libmpv == "libmpv"   \* the backend, and the path of its library
Mpv == "mpv"
PreferencesAssumption ==
  /\ Bindings \subseteq STRING \X STRING /\ {Unnamed, Libmpv} \cap MpvPaths = {}
  /\ installThread \in Patchers
  /\ {MaxPatches, MaxPlayerStarts, MaxSaveFaults} \subseteq Nat

VARIABLES
  settings,       \* PreferencesService: the snapshot
  settingsFile,
  unsent,         \* of each thread: a change that is kept but not announced yet
  announced,        \* the channel to the shell, and the tasks on its UI thread
  shellSettings,  \* BrowserState.settings
  player,         \* PlaybackCoordinator: the backend, what it was warmed with, its preferences
  windowModel,    \* the backend the windows were made for
  openedWith,         \* the runtime that a playback was opened with
  patches, playerStarts, saveFaults,
  restartAsked,   \* history: the windows need a restart
  announcedLate   \* history: a change was announced after a later one

preferenceVars == <<settings, settingsFile, unsent, announced, shellSettings, player, windowModel,
                    openedWith, patches, playerStarts, saveFaults, restartAsked, announcedLate>>

NoChange == [version |-> 0]
SkipChoices == {"prompt", "always"}
Defaults == [backend |-> Unnamed, path |-> Unnamed,
             watched |-> "w", seek |-> "j", skip |-> "prompt", version |-> 0]

(* effective_backend, on a platform with libmpv: an old file with a path means mpv. *)
EffectiveBackend(s) ==
  IF s.backend # Unnamed THEN s.backend ELSE IF s.path # Unnamed THEN Mpv ELSE Libmpv
ConfiguredPath(s) == IF EffectiveBackend(s) = Libmpv THEN Libmpv ELSE s.path
PlayerPreferences(s) == [watched |-> s.watched, skip |-> s.skip]

Shortcuts == {keys[1] : keys \in Bindings} \cup {keys[2] : keys \in Bindings} \cup {"w", "j"}
DeviceSettings ==
  [backend : {Unnamed, Libmpv, Mpv}, path : MpvPaths \cup {Unnamed},
   watched : Shortcuts, seek : Shortcuts, skip : SkipChoices, version : 0 .. MaxPatches]
Changes ==
  [to : DeviceSettings, plan : [rebuild : BOOLEAN, configure : BOOLEAN], version : 1 .. MaxPatches]
Players ==
  [kind : {Libmpv, Mpv}, warmed : MpvPaths \cup {Unnamed, Libmpv},
   preferences : [watched : Shortcuts, skip : SkipChoices]]

PreferencesTypeOK ==
  /\ {settings, settingsFile, shellSettings} \subseteq DeviceSettings
  /\ unsent \in [Patchers -> Changes \cup {NoChange}] /\ announced \in Seq(Changes)
  /\ player \in Players /\ windowModel \in {Libmpv, Mpv}
  /\ openedWith \in [runtime : MpvPaths \cup {Unnamed, Libmpv}, kind : {Libmpv, Mpv, Unnamed},
                     warmed : BOOLEAN]
  /\ patches \in 0 .. MaxPatches /\ playerStarts \in 0 .. MaxPlayerStarts
  /\ saveFaults \in 0 .. MaxSaveFaults /\ {restartAsked, announcedLate} \subseteq BOOLEAN

(* build_backend and warm_configured_player: without a path there is nothing to warm. *)
NotOpened == [runtime |-> Unnamed, kind |-> Unnamed, warmed |-> FALSE]
BuiltBy(s) ==
  [kind |-> EffectiveBackend(s), warmed |-> ConfiguredPath(s), preferences |-> PlayerPreferences(s)]

Begun(s) ==
  /\ settings = s /\ shellSettings = s /\ player = BuiltBy(s) /\ windowModel = EffectiveBackend(s)
  /\ unsent = [t \in Patchers |-> NoChange] /\ announced = << >> /\ openedWith = NotOpened
  /\ restartAsked = FALSE /\ announcedLate = FALSE

(* A file of an older version may have a path and no backend. *)
PreferencesInit ==
  /\ settingsFile \in {Defaults} \cup {[Defaults EXCEPT !.path = p] : p \in MpvPaths}
  /\ Begun(settingsFile) /\ patches = 0 /\ playerStarts = 0 /\ saveFaults = 0

-----------------------------------------------------------------------------
(* PreferencesService.                                                                   *)

(* SettingsApplyPlan::between.  The windows are made for one backend: a change from or to  *)
(* the built-in player waits for a restart.  Mutant: another path is nothing to rebuild for. *)
WindowModelChanged(from, to) ==
  EffectiveBackend(from) # EffectiveBackend(to)   \* one of the two is the built-in player
RebuildOnBackend(from, to) ==
  ~WindowModelChanged(from, to) /\ EffectiveBackend(from) # EffectiveBackend(to)
RebuildPlayer(from, to) ==
  ~WindowModelChanged(from, to) /\ EffectiveBackend(to) = Mpv /\ from.path # to.path
ApplyPlan(from, to) ==
  [rebuild |-> RebuildPlayer(from, to), configure |-> PlayerPreferences(from) # PlayerPreferences(to)]

(* patch_player's last check: the built-in player shares its keyboard.  Mutant: it looks at *)
(* the backend of before.                                                                 *)
ConflictBefore(next) ==
  EffectiveBackend(settings) = Libmpv /\ next.watched # Unnamed /\ next.watched = next.seek
ShortcutsConflict(next) ==
  EffectiveBackend(next) = Libmpv /\ next.watched # Unnamed /\ next.watched = next.seek

(* update, up to notify: `next` is saved, then shown, under the lock.                      *)
(* Mutant: shown, then saved.                                                             *)
Announcing(t, next) ==
  unsent' = [unsent EXCEPT ![t] =
    [to |-> next, plan |-> ApplyPlan(settings, next), version |-> next.version]]
SettingsSaveFails == saveFaults < MaxSaveFaults /\ saveFaults' = saveFaults + 1
ShownFirst(t, next) ==
  /\ settings' = next
  /\ \/ settingsFile' = next /\ Announcing(t, next) /\ UNCHANGED saveFaults
     \/ SettingsSaveFails /\ UNCHANGED <<settingsFile, unsent>>
KeepSettings(t, next) ==
  \/ settingsFile' = next /\ settings' = next /\ Announcing(t, next) /\ UNCHANGED saveFaults
  \/ SettingsSaveFails /\ UNCHANGED <<settings, settingsFile, unsent>>

UpdateSettings(t, next) ==
  /\ unsent[t] = NoChange /\ patches < MaxPatches /\ patches' = patches + 1
  /\ KeepSettings(t, [next EXCEPT !.version = patches + 1])
  /\ restartAsked' = (restartAsked \/ WindowModelChanged(settings, settings'))
  /\ UNCHANGED <<announced, shellSettings, player, windowModel, openedWith, playerStarts, announcedLate>>

PatchPlayer(t, backend, path, watched, seek) ==
  LET next == [settings EXCEPT !.backend = backend, !.path = path,
                               !.watched = watched, !.seek = seek]
  IN  ~ShortcutsConflict(next) /\ UpdateSettings(t, next)
PatchPlayback(t, skip) == UpdateSettings(t, [settings EXCEPT !.skip = skip])

(* set_mpv_path, of an installation's end: on the UI thread. *)
SetMpvPath(t, path) == UpdateSettings(t, [settings EXCEPT !.path = path, !.backend = Mpv])

(* notify, after the lock is free: another thread's change may be announced first. *)
Notify(t) ==
  /\ unsent[t] # NoChange /\ unsent' = [unsent EXCEPT ![t] = NoChange]
  /\ announced' = Append(announced, unsent[t])
  /\ announcedLate' =
       (announcedLate \/ \E c \in {shellSettings} \cup Range(announced) : c.version > unsent[t].version)
  /\ UNCHANGED <<settings, settingsFile, shellSettings, player, windowModel, openedWith, patches,
                 playerStarts, saveFaults, restartAsked>>

-----------------------------------------------------------------------------
(* The shell's UI thread.                                                                *)

(* apply_preference_change; PlaybackCoordinator::replace, warm, configure.                 *)
ApplySettings ==
  LET change == Head(announced) IN
  /\ announced # << >> /\ announced' = Tail(announced) /\ shellSettings' = change.to
  /\ player' = IF change.plan.rebuild THEN BuiltBy(change.to)
               ELSE IF change.plan.configure
               THEN [player EXCEPT !.preferences = PlayerPreferences(change.to)]
               ELSE player
  /\ UNCHANGED <<settings, settingsFile, unsent, windowModel, openedWith, patches, playerStarts,
                 saveFaults, restartAsked, announcedLate>>

(* play::start, PlaybackCoordinator::open: a warmed player keeps its runtime, whatever the  *)
(* settings name by now.  Mutant: what they name is opened.                               *)
OpensSettings == ConfiguredPath(settings)
RuntimeToOpen == IF player.warmed # Unnamed THEN player.warmed ELSE ConfiguredPath(settings)
Open ==
  /\ ConfiguredPath(settings) # Unnamed
  /\ openedWith' = [runtime |-> RuntimeToOpen, kind |-> player.kind, warmed |-> player.warmed # Unnamed]
  /\ UNCHANGED <<settings, settingsFile, unsent, announced, shellSettings, player, windowModel,
                 patches, playerStarts, saveFaults, restartAsked, announcedLate>>

(* The program ends and starts: load, apply_launch_overrides.  A path on the command line   *)
(* chooses mpv and is saved; without one, mpv that is found is used and not saved.          *)
StartedWith(commandLine, found) ==
  IF commandLine # Unnamed THEN [settingsFile EXCEPT !.path = commandLine, !.backend = Mpv]
  ELSE IF EffectiveBackend(settingsFile) = Mpv /\ settingsFile.path = Unnamed
  THEN [settingsFile EXCEPT !.path = found]
  ELSE settingsFile
StartAgain(commandLine, found) ==
  LET s == StartedWith(commandLine, found) IN
  /\ playerStarts < MaxPlayerStarts /\ playerStarts' = playerStarts + 1
  /\ settingsFile' = IF commandLine # Unnamed THEN s ELSE settingsFile
  /\ settings' = s /\ shellSettings' = s /\ player' = BuiltBy(s) /\ windowModel' = EffectiveBackend(s)
  /\ unsent' = [t \in Patchers |-> NoChange] /\ announced' = << >> /\ openedWith' = NotOpened
  /\ restartAsked' = FALSE /\ announcedLate' = FALSE
  /\ UNCHANGED <<patches, saveFaults>>

PreferencesNext ==
  \/ ApplySettings \/ Open
  \/ \E t \in Patchers : Notify(t)
  \/ \E t \in Patchers \ {installThread} :
       \/ \E b \in {settings.backend, Libmpv, Mpv}, p \in MpvPaths \cup {Unnamed}, keys \in Bindings :
            PatchPlayer(t, b, p, keys[1], keys[2])
       \/ \E m \in SkipChoices : PatchPlayback(t, m)
  \/ \E p \in MpvPaths : SetMpvPath(installThread, p)
  \/ \E c, f \in MpvPaths \cup {Unnamed} : StartAgain(c, f)

PreferencesSpec == PreferencesInit /\ [][PreferencesNext]_preferenceVars

-----------------------------------------------------------------------------
(* The windows are made for one backend, and the player is built for it until a change of *)
(* the backend asks for a restart (SettingsApplyPlan::between).                            *)
KeepsItsWindowModel == restartAsked \/ player.kind = windowModel

Quiet == announced = << >> /\ \A t \in Patchers : unsent[t] = NoChange

(* The player runs by the settings once they are applied, unless a change was announced    *)
(* late; its runtime too, unless a restart was asked for.  It is opened with a runtime of   *)
(* its kind as long as it was warmed with one.  The built-in player's shortcuts do not     *)
(* clash after any patches, and what is shown is what a start would read (update, notify,  *)
(* apply_preference_change, open).                                                        *)
PlayerRunsBySettings ==
  /\ Quiet /\ ~announcedLate =>
       /\ player.preferences = PlayerPreferences(settings)
       /\ shellSettings.version = settings.version
       /\ restartAsked \/ (/\ player.kind = EffectiveBackend(settings)
                          /\ player.warmed = ConfiguredPath(settings))
  /\ openedWith.warmed => (openedWith.runtime = Libmpv) = (openedWith.kind = Libmpv)
  /\ ~ShortcutsConflict(settings)
  /\ \/ settings = settingsFile
     \/ (settings.path # Unnamed /\ settingsFile = [settings EXCEPT !.path = Unnamed])
===============================================================================
