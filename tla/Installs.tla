------------------------------- MODULE Installs -------------------------------
(* The program updates itself and installs mpv (maintenance/updater.rs, player_setup.rs, *)
(* shell/cef/bridge.rs and events.rs).  Each runs on a thread of its own, one at a time;  *)
(* the UI thread starts them, hears of their ends in the order posted, and tells the      *)
(* pages.  Downloads are left out but for whether they succeed; so are the progress       *)
(* reports before an end.                                                                *)
EXTENDS Naturals, Sequences

CONSTANTS
  InstallRequests,   \* the settings page's requests to install mpv
  MaxDownloads, MaxInstallCrashes   \* bounds

InstallsAssumption == MaxDownloads \in Nat /\ MaxInstallCrashes \in Nat

VARIABLES
  windows,          \* the platform supports both (supported, automatic_install)
  updateAvailable,  \* update_available: a release to install
  updateStarted,    \* update_download_started
  downloads,        \* update-download threads, and those started so far
  updateTasks,      \* their ends on the way to the UI thread
  installer,        \* it was started, and the program told to exit
  mpvStarted,       \* mpv_setup_started
  setup,            \* the mpv-install threads: where each is
  mpvDir, newDir, oldDir,   \* the installation, `.new` and `.old`: nothing, an old or new mpv
  setupTasks,       \* the ends of mpv-install threads on the way to the UI thread
  answers,          \* what the page heard of each request
  mpvPath,          \* the settings name the installed mpv
  hadMpv, spoilt,   \* history: there was an mpv; it was lost to a crash or a failed rename
  installCrashes

updating == <<updateAvailable, updateStarted, downloads, updateTasks, installer>>
folders == <<mpvDir, newDir, oldDir>>
settingUp == <<mpvStarted, setup, setupTasks, answers, mpvPath>>
installVars == <<windows, updating, folders, settingUp, hadMpv, spoilt, installCrashes>>

SetupSteps == {"idle", "download", "extract", "aside", "in"}
RunningSetups == {r \in InstallRequests : setup[r] # "idle"}

InstallsTypeOK ==
  /\ {windows, updateAvailable, updateStarted, installer, mpvStarted, mpvPath, hadMpv,
      spoilt} \subseteq BOOLEAN
  /\ downloads \in [running : Nat, begun : 0 .. MaxDownloads]
  /\ updateTasks \in Seq({"ready", "error"})
  /\ setup \in [InstallRequests -> SetupSteps]
  /\ {mpvDir, newDir, oldDir} \subseteq {"none", "old", "new"}
  /\ setupTasks \in Seq(InstallRequests \X {"ready", "error"})
  /\ answers \in [InstallRequests -> {"none", "waiting", "completed", "failed"}]
  /\ installCrashes \in 0 .. MaxInstallCrashes

InstallsInit ==
  /\ windows \in BOOLEAN /\ updateAvailable = FALSE /\ updateStarted = FALSE
  /\ downloads = [running |-> 0, begun |-> 0] /\ updateTasks = << >> /\ installer = FALSE
  /\ mpvStarted = FALSE /\ setup = [r \in InstallRequests |-> "idle"] /\ setupTasks = << >>
  /\ mpvDir \in {"none", "old"} /\ newDir = "none" /\ oldDir = "none"
  /\ answers = [r \in InstallRequests |-> "none"] /\ mpvPath = FALSE
  /\ hadMpv = (mpvDir # "none") /\ spoilt = FALSE /\ installCrashes = 0

---------------------------------------------------------------------------------------
(* The update.                                                                           *)

(* check_for_update found a release, and UpdateEvent::Available arrived. *)
UpdateFound ==
  /\ ~updateAvailable /\ updateAvailable' = TRUE /\ updateStarted' = FALSE
  /\ UNCHANGED <<windows, downloads, updateTasks, installer, folders, settingUp, hadMpv, spoilt,
                 installCrashes>>

(* start_update_download: the user asks, in any page.  Mutant: while one runs, too. *)
Startable == updateAvailable /\ windows
MayDownload == ~updateStarted /\ updateAvailable /\ windows

StartUpdateDownload ==
  /\ MayDownload /\ downloads.begun < MaxDownloads
  /\ updateStarted' = TRUE
  /\ downloads' = [running |-> downloads.running + 1, begun |-> downloads.begun + 1]
  /\ UNCHANGED <<windows, updateAvailable, updateTasks, installer, folders, settingUp, hadMpv, spoilt,
                 installCrashes>>

(* download_update, on its thread *)
DownloadEnds(outcome) ==
  /\ downloads.running > 0 /\ downloads' = [downloads EXCEPT !.running = @ - 1]
  /\ updateTasks' = Append(updateTasks, outcome)
  /\ UNCHANGED <<windows, updateAvailable, updateStarted, installer, folders, settingUp, hadMpv, spoilt,
                 installCrashes>>

(* handle_update_event: the installer starts and the program exits, or the user may try    *)
(* again.                                                                                *)
HandleUpdateEvent(starts) ==
  /\ updateTasks # << >> /\ updateTasks' = Tail(updateTasks)
  /\ IF Head(updateTasks) = "ready" /\ starts
     THEN installer' = TRUE /\ UNCHANGED updateStarted
     ELSE updateStarted' = FALSE /\ UNCHANGED installer
  /\ UNCHANGED <<windows, updateAvailable, downloads, folders, settingUp, hadMpv, spoilt, installCrashes>>

---------------------------------------------------------------------------------------
(* mpv.                                                                                  *)

AnswerRequest(r, answer) == answers' = [answers EXCEPT ![r] = answer]

(* start_mpv_download.  Mutant: one that runs already is no obstacle. *)
NotBusy == TRUE
Free == ~mpvStarted

StartMpvDownload(r) ==
  /\ answers[r] = "none"
  /\ IF windows /\ Free
     THEN mpvStarted' = TRUE /\ setup' = [setup EXCEPT ![r] = "download"] /\ AnswerRequest(r, "waiting")
     ELSE AnswerRequest(r, "failed") /\ UNCHANGED <<mpvStarted, setup>>
  /\ UNCHANGED <<windows, updating, folders, setupTasks, mpvPath, hadMpv, spoilt, installCrashes>>

Goes(r, from, to) == setup[r] = from /\ setup' = [setup EXCEPT ![r] = to]
EndsAs(r, outcome) ==
  setup' = [setup EXCEPT ![r] = "idle"] /\ setupTasks' = Append(setupTasks, <<r, outcome>>)
SetupRest == UNCHANGED <<windows, updating, mpvStarted, answers, mpvPath, hadMpv, installCrashes>>

(* download_and_install: fetch the archive, *)
Download(r) ==
  /\ \/ Goes(r, "download", "extract") /\ UNCHANGED setupTasks
     \/ setup[r] = "download" /\ EndsAs(r, "error")
  /\ UNCHANGED <<folders, spoilt>> /\ SetupRest

(* unpack it aside; without an mpv in it that is cleared away, *)
Extract(r) ==
  /\ \/ Goes(r, "extract", "aside") /\ newDir' = "new" /\ UNCHANGED setupTasks
     \/ setup[r] = "extract" /\ EndsAs(r, "error") /\ newDir' = "none"
  /\ UNCHANGED <<mpvDir, oldDir, spoilt>> /\ SetupRest

(* put the old one aside, over what an earlier attempt left there,  *)
SetAside(r) ==
  /\ \/ /\ Goes(r, "aside", "in") /\ UNCHANGED setupTasks
        /\ oldDir' = mpvDir /\ mpvDir' = "none"
     \/ /\ setup[r] = "aside" /\ mpvDir # "none" /\ EndsAs(r, "error")
        /\ oldDir' = "none" /\ UNCHANGED mpvDir
  /\ UNCHANGED <<newDir, spoilt>> /\ SetupRest

(* and move the new one in, or the old one back.  Mutant: the old one stays aside.        *)
LeftAside == mpvDir
PutBack == oldDir

MoveIn(r) ==
  /\ \/ /\ setup[r] = "in" /\ EndsAs(r, "ready")
        /\ mpvDir' = newDir /\ newDir' = "none" /\ oldDir' = "none" /\ UNCHANGED spoilt
     \/ /\ setup[r] = "in" /\ EndsAs(r, "error") /\ newDir' = "none"
        /\ \/ mpvDir' = PutBack /\ oldDir' = "none" /\ UNCHANGED spoilt
           \/ oldDir # "none" /\ UNCHANGED <<mpvDir, oldDir>> /\ spoilt' = TRUE
  /\ SetupRest

(* handle_mpv_setup_event: the settings name the new mpv; when they cannot be saved the     *)
(* request failed.                                                                       *)
HandleSetupEvent(saved) ==
  LET r == Head(setupTasks)[1]
      ready == Head(setupTasks)[2] = "ready" IN
  /\ setupTasks # << >> /\ setupTasks' = Tail(setupTasks)
  /\ mpvStarted' = FALSE
  /\ AnswerRequest(r, IF ready /\ saved THEN "completed" ELSE "failed")
  /\ mpvPath' = (mpvPath \/ (ready /\ saved))
  /\ hadMpv' = (hadMpv \/ ready)
  /\ UNCHANGED <<windows, updating, setup, folders, spoilt, installCrashes>>

(* The program ends at any point, also to be updated, and is started again: nothing looks  *)
(* at the folders until the next installation.                                           *)
Restart ==
  /\ installCrashes < MaxInstallCrashes /\ installCrashes' = installCrashes + 1
  /\ updateAvailable' = FALSE /\ updateStarted' = FALSE /\ updateTasks' = << >> /\ installer' = FALSE
  /\ downloads' = [downloads EXCEPT !.running = 0]
  /\ mpvStarted' = FALSE /\ setup' = [r \in InstallRequests |-> "idle"] /\ setupTasks' = << >>
  /\ answers' = [r \in InstallRequests |-> IF answers[r] = "waiting" THEN "failed" ELSE answers[r]]
  /\ spoilt' = (spoilt \/ oldDir # "none")
  /\ UNCHANGED <<windows, folders, mpvPath, hadMpv>>

InstallsNext ==
  \/ UpdateFound \/ StartUpdateDownload \/ Restart
  \/ \E outcome \in {"ready", "error"} : DownloadEnds(outcome)
  \/ \E yes \in BOOLEAN : HandleUpdateEvent(yes) \/ HandleSetupEvent(yes)
  \/ \E r \in InstallRequests :
       StartMpvDownload(r) \/ Download(r) \/ Extract(r) \/ SetAside(r) \/ MoveIn(r)

InstallsSpec == InstallsInit /\ [][InstallsNext]_installVars

(* One update and one mpv are installed at a time, and an attempt that failed can be       *)
(* repeated.  An mpv that was there stays there, the old or the new one, through every     *)
(* failure; only an end of the program or a second failure right between the two renames   *)
(* loses it.  Who is told of a completed installation has the mpv                          *)
(* (download_and_install, start_mpv_download, start_update_download).                     *)
InstallsAreSound ==
  /\ downloads.running + Len(updateTasks) <= 1
  /\ updateStarted = (downloads.running + Len(updateTasks) = 1 \/ installer)
  /\ (\A r, s \in RunningSetups : r = s) /\ mpvStarted = (RunningSetups # {} \/ setupTasks # << >>)
  /\ \A r \in InstallRequests : answers[r] = "waiting" =>
       setup[r] # "idle" \/ \E i \in DOMAIN setupTasks : setupTasks[i][1] = r
  /\ hadMpv /\ ~spoilt => mpvDir # "none" \/ (oldDir # "none" /\ \E r \in InstallRequests : setup[r] = "in")
=============================================================================
