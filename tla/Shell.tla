-------------------------------- MODULE Shell --------------------------------
(* The program from its start to its exit (main.rs, shell/locator.rs, shell/cef).  Any   *)
(* thread that needs the services opens them; the UI thread makes the window: mpv's own, *)
(* with the pages drawn over it, or, when that fails, one of the browser's.  It is shown *)
(* when the page says that it is ready.  A close may minimize the window, or ask the     *)
(* page, which may hold unsaved settings; the last browser to close takes the player and *)
(* the services down.  A callback of the browser is one step.                            *)
EXTENDS Naturals

CONSTANTS
  ShellThreads, uiThread,   \* threads that need the services
  WindowBounds,             \* places and sizes of the window
  MaxOpenFaults, MaxCloseRequests, MaxSettingChanges   \* bounds

nobody == "nobody"
ShellAssumption ==
  /\ uiThread \in ShellThreads /\ nobody \notin ShellThreads /\ WindowBounds \subseteq Nat
  /\ {MaxOpenFaults, MaxCloseRequests, MaxSettingChanges} \subseteq Nat

VARIABLES
  startHidden, overlayWanted, linux,   \* --hidden, is_configured, the platform
  initLock,       \* INIT_LOCK: who holds it, or nobody
  initAt,         \* where each thread is in init_with_settings
  servicesOpen, servicesOn, opened,    \* SERVICES is set; started; history: how often opened
  window,         \* none, asked (not yet created), framed, overlay or gone
  host,           \* the overlay's native window is there
  ready, revealAsked, revealed,        \* the page is; reveal_main_window was called, and showed
  minimized, minimizes,                \* CloseBehavior::MinimizeWindow
  browserIs,      \* none, open, asking (the page's beforeunload), agreed or closed
  unsaved,        \* the page holds unsaved settings
  forced,         \* force_close_requested
  playerUp, quit, \* the player runs; the message loop was told to end
  placed, liveBounds, savedBounds,     \* the window's, in BrowserState, in the settings file
  openFaults, closeRequests, settingChanges

openers == <<initLock, initAt, servicesOpen, servicesOn, opened, openFaults>>
options == <<startHidden, overlayWanted, linux>>
shows == <<ready, revealAsked, revealed>>
closing == <<browserIs, forced, playerUp, quit>>
geometry == <<placed, liveBounds, savedBounds>>
frame == <<window, host, minimized>>
limits == <<minimizes, closeRequests, settingChanges>>
shellVars == <<options, openers, frame, shows, limits, closing, unsaved, geometry>>

ShellTypeOK ==
  /\ {startHidden, overlayWanted, linux, servicesOpen, servicesOn, host, ready, revealAsked, revealed,
      minimized, minimizes, unsaved, forced, playerUp, quit} \subseteq BOOLEAN
  /\ initLock \in ShellThreads \cup {nobody} /\ opened \in Nat
  /\ initAt \in [ShellThreads -> {"idle", "waiting", "opening", "starting", "has", "failed"}]
  /\ window \in {"none", "asked", "framed", "overlay", "gone"}
  /\ browserIs \in {"none", "open", "asking", "agreed", "closed"}
  /\ {placed, liveBounds, savedBounds} \subseteq WindowBounds
  /\ openFaults \in 0 .. MaxOpenFaults /\ closeRequests \in 0 .. MaxCloseRequests
  /\ settingChanges \in 0 .. MaxSettingChanges

ShellInit ==
  /\ startHidden \in BOOLEAN /\ overlayWanted \in BOOLEAN /\ linux \in BOOLEAN
  /\ minimizes \in BOOLEAN
  /\ initLock = nobody /\ initAt = [t \in ShellThreads |-> "idle"]
  /\ servicesOpen = FALSE /\ servicesOn = FALSE /\ opened = 0 /\ openFaults = 0
  /\ window = "none" /\ host = FALSE /\ minimized = FALSE
  /\ ready = FALSE /\ revealAsked = FALSE /\ revealed = FALSE
  /\ browserIs = "none" /\ forced = FALSE /\ playerUp = FALSE /\ quit = FALSE
  /\ unsaved = FALSE
  /\ placed \in WindowBounds /\ liveBounds = placed /\ savedBounds = placed
  /\ closeRequests = 0 /\ settingChanges = 0

---------------------------------------------------------------------------------------
(* init_with_settings: the services-init thread, the UI thread and those of the API call *)
(* it.                                                                                   *)

InitStep(t, from, to) == initAt[t] = from /\ initAt' = [initAt EXCEPT ![t] = to]
ServicesStep == UNCHANGED <<options, frame, shows, limits, closing, unsaved, geometry>>

AskServices(t) ==
  /\ ~quit /\ (initAt[t] = "idle" \/ (initAt[t] = "failed" /\ t # uiThread))
  /\ initAt' = [initAt EXCEPT ![t] = IF servicesOpen THEN "has" ELSE "waiting"]
  /\ UNCHANGED <<initLock, servicesOpen, servicesOn, opened, openFaults>> /\ ServicesStep

(* The second look at SERVICES, with the lock held.  Mutant: none. *)
NoSecondLook == FALSE
SecondLook == servicesOpen

TakeInitLock(t) ==
  /\ initLock = nobody
  /\ IF SecondLook THEN InitStep(t, "waiting", "has") /\ UNCHANGED initLock
     ELSE InitStep(t, "waiting", "opening") /\ initLock' = t
  /\ UNCHANGED <<servicesOpen, servicesOn, opened, openFaults>> /\ ServicesStep

OpenServices(t, ok) ==
  /\ ok \/ openFaults < MaxOpenFaults
  /\ openFaults' = openFaults + (IF ok THEN 0 ELSE 1)
  /\ IF ok THEN InitStep(t, "opening", "starting") /\ servicesOpen' = TRUE /\ opened' = opened + 1 /\ UNCHANGED initLock
     ELSE InitStep(t, "opening", "failed") /\ initLock' = nobody /\ UNCHANGED <<servicesOpen, opened>>
  /\ UNCHANGED servicesOn /\ ServicesStep

StartServices(t) ==
  /\ InitStep(t, "starting", "has") /\ servicesOn' = TRUE /\ initLock' = nobody
  /\ UNCHANGED <<servicesOpen, opened, openFaults>> /\ ServicesStep

---------------------------------------------------------------------------------------
(* The window.                                                                           *)

(* reveal_main_window: the overlay's is shown by its surface on Linux, mpv shows it on     *)
(* Windows; the browser's, when it has been created.                                     *)
Reveals(exists) == ~revealed /\ ~startHidden /\ exists

(* on_context_initialized, with the services or without: the surface over mpv's window,   *)
(* if mpv has one within 20 s, it can be bound and a browser made for it.                *)
OnContextInitialized(overlays) ==
  /\ initAt[uiThread] \in {"has", "failed"} /\ window = "none" /\ ~quit
  /\ overlays => overlayWanted
  /\ playerUp' = TRUE
  /\ IF overlays THEN window' = "overlay" /\ host' = TRUE /\ browserIs' = "open"
     ELSE window' = "asked" /\ UNCHANGED <<host, browserIs>>
  /\ UNCHANGED <<options, openers, minimized, shows, limits, forced, quit, unsaved, geometry>>

(* on_after_created: the page of the framed window comes at a time of its own. *)
OnAfterCreated ==
  /\ window \in {"asked", "framed"} /\ browserIs = "none" /\ ~quit /\ browserIs' = "open"
  /\ UNCHANGED <<options, openers, frame, shows, limits, forced, playerUp, quit, unsaved, geometry>>

(* on_window_created, register_main_window.  Mutant: it does not ask whether the page was  *)
(* ready before.                                                                         *)
AlreadyForgotten == FALSE
AlreadyAsked == revealAsked

OnWindowCreated ==
  /\ window = "asked" /\ window' = "framed" /\ ~quit
  /\ revealed' = (revealed \/ (AlreadyAsked /\ Reveals(TRUE)))
  /\ UNCHANGED <<options, openers, host, minimized, ready, revealAsked, limits, closing, unsaved,
                 geometry>>

(* MainWindowReady, the fallback URL of the page, or the end of loading the error page.    *)
PageReady ==
  /\ browserIs \in {"open", "asking"} /\ ~quit
  /\ ready' = TRUE /\ revealAsked' = TRUE
  /\ revealed' = (revealed \/ Reveals(window = "framed" \/ (window = "overlay" /\ linux)))
  /\ UNCHANGED <<options, openers, frame, limits, closing, unsaved, geometry>>

(* on_window_bounds_changed; the overlay's tick looks itself.  Neither keeps the bounds of *)
(* a minimized window.                                                                   *)
BoundsChange(b) ==
  /\ window \in {"framed", "overlay"} /\ placed' = b /\ b # placed /\ ~quit /\ ~minimized
  /\ liveBounds' = b
  /\ UNCHANGED <<options, openers, frame, shows, limits, closing, unsaved, savedBounds>>

(* apply_preference_change: another settings snapshot, with the bounds of some time ago.   *)
(* Mutant: the snapshot as it is.                                                        *)
SnapshotAsItIs == savedBounds
LiveKept == liveBounds

ApplyPreferenceChange ==
  /\ window \notin {"none", "gone"} /\ ~quit /\ initAt[uiThread] = "has"
  /\ settingChanges < MaxSettingChanges /\ settingChanges' = settingChanges + 1
  /\ minimizes' \in BOOLEAN
  /\ liveBounds' = IF window = "overlay" THEN liveBounds ELSE LiveKept
  /\ UNCHANGED <<options, openers, frame, shows, closeRequests, closing, unsaved, placed, savedBounds>>

---------------------------------------------------------------------------------------
(* Closing.                                                                              *)

(* The page gets or loses unsaved settings; and when it asked whether to leave, its user   *)
(* may agree, and the page closes itself.                                                *)
PageEdits ==
  /\ browserIs = "open" /\ ready /\ ~quit /\ unsaved' = ~unsaved
  /\ UNCHANGED <<options, openers, frame, shows, limits, closing, geometry>>

UserLeaves ==
  /\ browserIs = "open" /\ unsaved /\ unsaved' = FALSE
  /\ browserIs' = "asking"
  /\ UNCHANGED <<options, openers, frame, shows, limits, forced, playerUp, quit, geometry>>

(* What is saved of the bounds when the window is minimized or closes.  Mutant: nothing.  *)
NotSaved == savedBounds
SavedOnClose == IF servicesOpen THEN liveBounds ELSE savedBounds

(* request_main_window_close: the user, Alt+F4, or mpv's CLOSE_WIN.                       *)
Minimizes == ~forced /\ minimizes
RequestMainWindowClose ==
  /\ window \in {"framed", "overlay"} /\ browserIs = "open" /\ ~quit
  /\ closeRequests < MaxCloseRequests /\ closeRequests' = closeRequests + 1
  /\ IF Minimizes
     THEN /\ minimized' = TRUE /\ UNCHANGED browserIs
          /\ savedBounds' = IF window = "framed" THEN SavedOnClose ELSE savedBounds
     ELSE browserIs' = "asking" /\ UNCHANGED <<minimized, savedBounds>>
  /\ UNCHANGED <<options, openers, window, host, shows, minimizes, settingChanges, forced, playerUp, quit, unsaved,
                 placed, liveBounds>>

Restored ==
  /\ minimized /\ minimized' = FALSE
  /\ UNCHANGED <<options, openers, window, host, shows, limits, closing, unsaved, geometry>>

(* on_before_unload_dialog, when the page holds on.  Mutant: it always may go.           *)
GoesAnyway == TRUE
MayGo == forced \/ ~unsaved

BeforeUnload ==
  /\ browserIs = "asking" /\ browserIs' = IF MayGo THEN "agreed" ELSE "open"
  /\ UNCHANGED <<options, openers, frame, shows, limits, forced, playerUp, quit, unsaved, geometry>>

(* initiate_app_exit, for an update; and `close` of the surface when mpv's window is gone   *)
(* or takes no frame.  Nothing may stop it.                                              *)
ForceClose ==
  /\ forced' = TRUE
  /\ IF browserIs \in {"open", "asking", "agreed"}
     THEN browserIs' = "agreed" /\ UNCHANGED <<playerUp, quit>>
     ELSE browserIs' = browserIs /\ playerUp' = FALSE /\ quit' = TRUE

InitiateAppExit ==
  /\ window # "none" /\ ~quit /\ ForceClose
  /\ UNCHANGED <<options, openers, frame, shows, limits, unsaved, geometry>>

HostVanishes ==
  /\ window = "overlay" /\ host /\ ~quit /\ host' = FALSE /\ ForceClose
  /\ UNCHANGED <<options, openers, window, minimized, shows, limits, unsaved, geometry>>

(* can_close once more, for the window of a browser that agreed: it may still minimize.    *)
StillMinimized ==
  /\ browserIs = "agreed" /\ window = "framed" /\ Minimizes
  /\ minimized' = TRUE /\ browserIs' = "open" /\ savedBounds' = SavedOnClose
  /\ UNCHANGED <<options, openers, window, host, shows, limits, forced, playerUp, quit, unsaved,
                 placed, liveBounds>>

(* on_window_closing, on_window_destroyed, on_before_close: the bounds are saved, then the *)
(* surface, the player and the services go, in this order.                                *)
OnBeforeClose ==
  /\ browserIs = "agreed" /\ ~(window = "framed" /\ Minimizes) /\ browserIs' = "closed"
  /\ window' = "gone" /\ host' = FALSE
  /\ savedBounds' = SavedOnClose
  /\ playerUp' = FALSE /\ quit' = TRUE /\ servicesOn' = FALSE
  /\ UNCHANGED <<options, initLock, initAt, servicesOpen, opened, openFaults, minimized, shows, limits,
                 forced, unsaved, placed, liveBounds>>

ShellNext ==
  \/ \E t \in ShellThreads : \/ AskServices(t) \/ TakeInitLock(t) \/ StartServices(t)
                             \/ \E ok \in BOOLEAN : OpenServices(t, ok)
  \/ \E overlays \in BOOLEAN : OnContextInitialized(overlays)
  \/ OnAfterCreated \/ OnWindowCreated \/ PageReady \/ ApplyPreferenceChange \/ PageEdits \/ UserLeaves
  \/ \E b \in WindowBounds : BoundsChange(b)
  \/ RequestMainWindowClose \/ Restored \/ BeforeUnload \/ InitiateAppExit \/ HostVanishes
  \/ StillMinimized \/ OnBeforeClose

ShellSpec == ShellInit /\ [][ShellNext]_shellVars

(* The services are opened once, whoever asks.  The window is shown when the page is ready *)
(* and the window is there, in either order, and not before or when it is to stay hidden.  *)
(* When the program ends the player is down (init_with_settings, reveal_main_window,       *)
(* request_main_window_close, on_before_close).                                            *)
ShellIsSound ==
  /\ opened <= 1 /\ \A t \in ShellThreads : initAt[t] = "has" => servicesOpen
  /\ revealed => ready /\ ~startHidden
  /\ ready /\ ~startHidden /\ (window = "framed" \/ (window = "overlay" /\ linux)) => revealed
  /\ forced => browserIs \in {"agreed", "closed", "none"}
  /\ quit => ~playerUp

(* Unsaved settings are lost to a forced close only, which nothing stops; and the bounds   *)
(* of the window that closes are the saved ones (request_main_window_close,                *)
(* on_before_close).                                                                       *)
ClosesAsAgreed ==
  browserIs' = "closed" /\ browserIs # "closed" =>
    (forced \/ ~unsaved) /\ (servicesOpen => savedBounds' = placed)
=============================================================================
