----------------------------- MODULE CompanionProbe -----------------------------
(* What the server's companion plugin can do, as the program knows it                    *)
(* (companion/mod.rs): probed with the signed-in account's client, kept for a while, and *)
(* read by every feature before it asks the plugin.  Pages, the collections' scheduler,  *)
(* the ratings' and the start-up thread probe when they need it; a sign-in forgets what  *)
(* was known of the previous account and probes again (api/auth.rs).  One probe runs at  *)
(* a time; only what it files is checked against the session, so what matters is in      *)
(* which order threads read the session, read what is known and write it.                *)
EXTENDS Naturals

CONSTANTS
  Callers,        \* threads
  Users, NoUser,  \* accounts, each of a server of its own
  Installed,      \* what the plugin of each account's server may be
  MaxLogins       \* bound: sign-ins

VARIABLES
  user, login,    \* the session: the account signed in, and its generation
  plugin,         \* what each account's server has
  known,          \* ProbeState
  probing,        \* probe_running
  call,           \* [Callers -> what the thread is at]
  settled,        \* history: the last sign-in ran to the end of its probe
  keptLate        \* history: a failed probe wrote back what a sign-in had cleared

companionVars == <<user, login, plugin, known, probing, call, settled, keptLate>>

(* No plugin, one of the supported API, one of a newer API. *)
Plugins == {"none", "supported", "newer"}

ASSUME CompanionAssumption ==
  NoUser \notin Users /\ Installed \subseteq [Users -> Plugins] /\ MaxLogins \in Nat

(* ProbeState: what is known (`info`) of whose server, whether the last probe failed, and  *)
(* whether it is recent enough to be used again.                                           *)
States == [checked : BOOLEAN, info : Plugins, of : Users \cup {NoUser},
           error : BOOLEAN, fresh : BOOLEAN]
Unknown == [checked |-> FALSE, info |-> "none", of |-> NoUser, error |-> FALSE, fresh |-> FALSE]
Found(info, of) ==
  [checked |-> TRUE, info |-> info, of |-> of, error |-> info = "newer", fresh |-> TRUE]
Reusable == known.checked /\ known.fresh
SameInfo(s, t) == s.info = t.info /\ s.of = t.of

(* Threads in probe_inner, and those of them that hold a SessionScope. *)
Asking == {"ask", "failed", "file", "refile"}
InProbe == Asking \cup {"look", "unsigned"}
Calls ==
  [at : {"idle", "activate", "clear", "wait"} \cup InProbe,
   why : {"read", "refresh", "signIn", "signOut"},
   login : 0 .. MaxLogins,                       \* the sign-in it is part of
   scope : 0 .. MaxLogins, of : Users \cup {NoUser},   \* the session it asks for
   answer : States]                              \* what it is about to file
Idle == [at |-> "idle", why |-> "read", login |-> 0, scope |-> 0, of |-> NoUser, answer |-> Unknown]

CompanionTypeOK ==
  /\ user \in Users \cup {NoUser} /\ login \in 0 .. MaxLogins
  /\ plugin \in [Users -> Plugins]
  /\ known \in States
  /\ probing \in BOOLEAN /\ settled \in BOOLEAN /\ keptLate \in BOOLEAN
  /\ call \in [Callers -> Calls]

(* A stored session is restored before anything probes. *)
CompanionInit ==
  /\ user \in Users \cup {NoUser} /\ login = 0
  /\ plugin \in Installed
  /\ known = Unknown /\ probing = FALSE
  /\ call = [c \in Callers |-> Idle]
  /\ settled = TRUE /\ keptLate = FALSE

Goes(c, at) == call' = [call EXCEPT ![c].at = at]
Returns(c) == call' = [call EXCEPT ![c] = Idle]
signedInto == <<user, login, plugin>>
ghosts == <<settled, keptLate>>

(* probe(false) of a feature that is about to ask the plugin, probe(true) of a page that    *)
(* shows what the plugin can do.                                                            *)
Probe(c) ==
  /\ call[c].at = "idle"
  /\ \E why \in {"read", "refresh"} : call' = [call EXCEPT ![c].at = "wait", ![c].why = why]
  /\ UNCHANGED <<signedInto, known, probing, ghosts>>

(* auth_login and quick_connect_poll: the session is committed first; the account's settings *)
(* follow, and a failure there ends the request, before what was known is forgotten.         *)
SignIn(c, u) ==
  /\ call[c].at = "idle" /\ login < MaxLogins
  /\ user' = u /\ login' = login + 1 /\ settled' = FALSE
  /\ call' = [call EXCEPT ![c].at = "activate", ![c].why = "signIn", ![c].login = login + 1]
  /\ UNCHANGED <<plugin, known, probing, keptLate>>

(* auth_logout: Session::logout, then the same. *)
SignOut(c) ==
  /\ call[c].at = "idle" /\ user # NoUser
  /\ user' = NoUser
  /\ call' = [call EXCEPT ![c].at = "activate", ![c].why = "signOut"]
  /\ UNCHANGED <<login, plugin, known, probing, ghosts>>

Activate(c) ==
  /\ call[c].at = "activate"
  /\ Goes(c, "clear") \/ Returns(c)
  /\ UNCHANGED <<signedInto, known, probing, ghosts>>

ClearSignOutOnly(c) ==
  /\ call[c].at = "clear"
  /\ IF call[c].why = "signIn"
       THEN Goes(c, "wait") /\ UNCHANGED <<known, keptLate>>
       ELSE Returns(c) /\ known' = Unknown /\ keptLate' = FALSE
  /\ UNCHANGED <<signedInto, probing, settled>>

(* clear(); a sign-in then probes for the new account, whatever is known by then. *)
Clear(c) ==
  /\ call[c].at = "clear"
  /\ IF call[c].why = "signIn" THEN Goes(c, "wait") ELSE Returns(c)
  /\ known' = Unknown /\ keptLate' = FALSE
  /\ UNCHANGED <<signedInto, probing, settled>>

EnterAtOnce(c) ==
  /\ call[c].at = "wait"
  /\ IF call[c].why = "read" /\ Reusable
       THEN Returns(c) /\ UNCHANGED probing
       ELSE Goes(c, "look") /\ probing' = TRUE
  /\ UNCHANGED <<signedInto, known, ghosts>>

(* probe waits its turn; what is fresh answers, unless the probe is forced. *)
Enter(c) ==
  /\ call[c].at = "wait" /\ ~probing
  /\ IF call[c].why = "read" /\ Reusable
       THEN Returns(c) /\ UNCHANGED probing
       ELSE Goes(c, "look") /\ probing' = TRUE
  /\ UNCHANGED <<signedInto, known, ghosts>>

(* The probe is over: its thread leaves it, and a sign-in has had its probe. *)
Leave(c) ==
  /\ Returns(c) /\ probing' = FALSE
  /\ settled' = (settled \/ (call[c].why = "signIn" /\ call[c].login = login))

(* is_authenticated, and scope() of whoever is signed in then. *)
Look(c) ==
  /\ call[c].at = "look"
  /\ IF user = NoUser
       THEN Goes(c, "unsigned")
       ELSE call' = [call EXCEPT ![c].at = "ask", ![c].scope = login, ![c].of = user]
  /\ UNCHANGED <<signedInto, known, probing, ghosts>>

(* The session ended between is_authenticated and scope(). *)
ScopeGone(c) ==
  /\ call[c].at = "look" /\ user = NoUser
  /\ Leave(c)
  /\ UNCHANGED <<signedInto, known, keptLate>>

(* Nobody is signed in: there is no plugin.  This is filed without looking again. *)
FileUnsigned(c) ==
  /\ call[c].at = "unsigned"
  /\ known' = Found("none", NoUser) /\ keptLate' = FALSE
  /\ Leave(c)
  /\ UNCHANGED signedInto

(* The server's answer, a 404 among them, or none. *)
Answer(c) ==
  /\ call[c].at = "ask"
  /\ \/ call' = [call EXCEPT ![c].at = "file", ![c].answer = Found(plugin[call[c].of], call[c].of)]
     \/ Goes(c, "failed")
  /\ UNCHANGED <<signedInto, known, probing, ghosts>>

(* commit_if_current: nothing is filed for a session that has ended. *)
StillSignedIn(c) == user # NoUser /\ call[c].scope = login

FileAnswer(c) ==
  /\ call[c].at = "file"
  /\ IF StillSignedIn(c)
       THEN known' = call[c].answer /\ keptLate' = FALSE
       ELSE UNCHANGED <<known, keptLate>>
  /\ Leave(c)
  /\ UNCHANGED signedInto

(* A failure keeps what was known, as it was read before the commit. *)
ReadPrevious(c) ==
  /\ call[c].at = "failed"
  /\ call' = [call EXCEPT ![c].at = "refile", ![c].answer = known]
  /\ UNCHANGED <<signedInto, known, probing, ghosts>>

FileFailure(c) ==
  /\ call[c].at = "refile"
  /\ IF StillSignedIn(c)
       THEN /\ known' = [call[c].answer EXCEPT !.checked = TRUE, !.error = TRUE, !.fresh = TRUE]
            /\ keptLate' = (keptLate \/ ~SameInfo(call[c].answer, known))
       ELSE UNCHANGED <<known, keptLate>>
  /\ Leave(c)
  /\ UNCHANGED signedInto

(* A rejected token or the deletion of the account ends the session: nothing is cleared. *)
SessionEnds ==
  /\ user # NoUser /\ user' = NoUser
  /\ UNCHANGED <<login, plugin, known, probing, call, ghosts>>

(* Half a minute after a failure, five minutes after an answer. *)
Lapse ==
  /\ known.fresh /\ known' = [known EXCEPT !.fresh = FALSE]
  /\ UNCHANGED <<signedInto, probing, call, ghosts>>

CompanionNext ==
  \/ \E c \in Callers :
       \/ Probe(c) \/ SignOut(c) \/ \E u \in Users : SignIn(c, u)
       \/ Activate(c) \/ Clear(c) \/ Enter(c)
       \/ Look(c) \/ ScopeGone(c) \/ FileUnsigned(c)
       \/ Answer(c) \/ FileAnswer(c) \/ ReadPrevious(c) \/ FileFailure(c)
  \/ SessionEnds \/ Lapse

CompanionSpec == CompanionInit /\ [][CompanionNext]_companionVars

------------------------------------------------------------------------------------
(* Once the last sign-in has had its probe, the program shows no other account's plugin,   *)
(* unless a probe that failed read it before the sign-in forgot it and wrote it back; and   *)
(* it never takes "nobody is signed in" for the account's answer: that there is no plugin   *)
(* is then either not known yet or will be asked again soon (companion/mod.rs).             *)
CompanionIsTheAccounts ==
  user # NoUser /\ settled /\ known.of # user =>
    /\ known.info = "none" \/ keptLate
    /\ ~known.checked \/ known.error
=============================================================================
