------------------------------- MODULE Account -------------------------------
(***************************************************************************)
(* One MyUsage account in Home Assistant: the login round trips            *)
(* (client.py), the dialogs that validate a password before they store it  *)
(* (config_flow.py), the setup, reload and removal of the config entry     *)
(* (__init__.py), and what a portal cycle does with each way a login or a  *)
(* page may fail (coordinator.py, _fetch_cycle).                           *)
(*                                                                         *)
(* Dialogs and cycles are clients of the portal and interleave at every    *)
(* request.  A cycle is not cancelled when its entry is unloaded: it goes  *)
(* on as a stray, with the password it started with.  The account may be   *)
(* removed and added again, each time as a new entry with an archive of    *)
(* its own.                                                                *)
(***************************************************************************)
EXTENDS Naturals, FiniteSets

CONSTANTS
  Entries,    \* bound: the entries the account is ever given, in order
  Dialogs,    \* config flows open at the same time
  Cycles,     \* bound: portal cycles running at the same time
  MaxBusy,    \* bound: dialogs and cycles with a request under way
  Passwords,  \* what may be typed, and what the portal may hold
  NULL        \* no entry, no password

ASSUME AccountAssumption ==
  /\ NULL \notin Entries \cup Passwords
  /\ Entries \subseteq Nat /\ Cycles \subseteq Nat
  /\ Dialogs \cap Cycles = {}
  /\ MaxBusy \in Nat

VARIABLES
  right,   \* the password the portal holds
  healthy, \* the portal answers well, and the password stays, from now on
  recent,  \* a login was answered moments ago
  entry,   \* the config entries
  file,    \* their archives: none, empty, or with a successful fetch
  client,  \* what each dialog and each cycle is doing
  late     \* history: entries removed while a cycle of theirs was running

portalVars == <<right, healthy, recent>>
vars       == <<portalVars, entry, file, client, late>>

Clients == Dialogs \cup Cycles

\* reload: a reload has been scheduled and waits for the end of a setup.
NoEntry == [state |-> "none", password |-> NULL, reload |-> FALSE]

\* of: the entry a cycle or a re-authentication is about (NULL: a new one);
\* named: the dialog has claimed the account's unique id; never: no successful
\* fetch when the cycle looked; stray: the entry was unloaded since it started.
Idle == [step |-> "idle", of |-> NULL, password |-> NULL,
         named |-> FALSE, never |-> FALSE, stray |-> FALSE]

Exists(e) == entry[e].state \notin {"none", "removed"}

EntryStates == [state : {"none", "setup", "loaded", "retry", "error", "removed"},
                password : Passwords \cup {NULL}, reload : BOOLEAN]

ClientStates == [step : {"idle", "form", "ask", "post", "landing", "pages"},
                 of : Entries \cup {NULL}, password : Passwords \cup {NULL},
                 named : BOOLEAN, never : BOOLEAN, stray : BOOLEAN]

TypeOK ==
  /\ right \in Passwords /\ healthy \in BOOLEAN /\ recent \in BOOLEAN
  /\ entry \in [Entries -> EntryStates]
  /\ file \in [Entries -> {"none", "empty", "fetched"}]
  /\ client \in [Clients -> ClientStates]
  /\ late \subseteq Entries

Running(e)  == {c \in Cycles : client[c].step # "idle" /\ client[c].of = e}
Asking(e)   == {d \in Dialogs : client[d].step # "idle" /\ client[d].of = e}
Free        == {d \in Dialogs : client[d].step = "idle"}
MayStart    == Cardinality({c \in Clients : client[c].step \notin {"idle", "form"}}) < MaxBusy
Unused      == {e \in Entries : entry[e].state = "none"}

-----------------------------------------------------------------------------
(* How a cycle ends: _fetch_cycle and DataUpdateCoordinator *)

\* Opening an archive creates it.
Touched(f, e) == [f EXCEPT ![e] = IF @ = "none" THEN "empty" ELSE @]

\* The end of a first refresh settles the setup; Home Assistant retries one that
\* failed.
Settled(e, c, state) ==
  IF entry[e].state = "setup" /\ ~client[c].stray
  THEN [entry EXCEPT ![e].state = state] ELSE entry

UpdateFails(c) ==
  /\ entry' = Settled(client[c].of, c, "retry")
  /\ client' = [client EXCEPT ![c] = Idle]

\* ConfigEntryAuthFailed: a re-authentication, unless one is open already.
AuthFails(c) ==
  LET e == client[c].of IN
  /\ entry' = Settled(e, c, "error")
  /\ \/ /\ Exists(e) /\ Asking(e) = {}
        /\ \E d \in Free : client' = [client EXCEPT
             ![c] = Idle, ![d] = [Idle EXCEPT !.step = "form", !.of = e]]
     \/ /\ ~Exists(e) \/ Asking(e) # {} \/ Free = {}
        /\ client' = [client EXCEPT ![c] = Idle]

\* Mutant: a rejected login is a rejected password, whatever was fetched before.
RejectedAlways(c) == AuthFails(c)

\* Before the first successful fetch a rejected login counts as a throttle.
Rejected(c) ==
  \/ client[c].never /\ UpdateFails(c)
  \/ ~client[c].never /\ AuthFails(c)

-----------------------------------------------------------------------------
(* How a dialog ends: async_step_user and async_step_reauth_confirm *)

\* Home Assistant puts the new entry in the place of one with the same unique
\* id, which is removed with its archive.
CreateEntry(d) ==
  /\ \E e \in Unused :
       /\ \A i \in Unused : e <= i
       /\ entry' = [i \in Entries |->
            CASE i = e -> [NoEntry EXCEPT !.state = "setup", !.password = client[d].password]
              [] i # e /\ Exists(i) -> [NoEntry EXCEPT !.state = "removed"]
              [] OTHER -> entry[i]]
  /\ file' = [i \in Entries |-> IF Exists(i) THEN "none" ELSE file[i]]
  /\ client' = [client EXCEPT ![d] = Idle]

\* async_update_reload_and_abort.
UpdateEntry(d) ==
  /\ entry' = [entry EXCEPT ![client[d].of].password = client[d].password,
                            ![client[d].of].reload = TRUE]
  /\ client' = [client EXCEPT ![d] = Idle]
  /\ UNCHANGED file

-----------------------------------------------------------------------------
(* The login: attempt_login, login, and what their callers make of it *)

\* The verdicts of a failed login: "auth", "unsupported", or any other error.
\* A dialog shows its form again, a cycle ends.
LoginFails(c, verdict) ==
  \/ /\ c \in Dialogs
     /\ client' = [client EXCEPT ![c].step = "form", ![c].password = NULL]
     /\ UNCHANGED entry
  \/ c \in Cycles /\ verdict = "auth" /\ Rejected(c)
  \/ c \in Cycles /\ verdict # "auth" /\ UpdateFails(c)

\* The GET of the home page, whose status is not looked at, and the POST, which
\* is answered with a redirect.
PostAccepted(c) ==
  /\ client[c].step = "post"
  /\ client[c].password = right
  /\ recent' = TRUE
  /\ client' = [client EXCEPT ![c].step = "landing"]
  /\ UNCHANGED <<right, healthy, entry, file, late>>

\* JSON without a redirect, whatever its status: a wrong password, a login soon
\* after another, or a failing portal that answers so.
PostRejected(c) ==
  /\ client[c].step = "post"
  /\ client[c].password # right \/ recent \/ ~healthy
  /\ recent' = TRUE
  /\ LoginFails(c, "auth")
  /\ UNCHANGED <<right, healthy, file, late>>

\* No answer to the GET or the POST, or none that is a JSON object.
PostFails(c) ==
  /\ client[c].step = "post"
  /\ ~healthy
  /\ LoginFails(c, "transport")
  /\ UNCHANGED <<portalVars, file, late>>

\* What the landing page may be instead of the Postpaid app.
Landings == {"select utility", "other app", "login page", "no appFlow", "unreachable"}

\* Mutant: the login page means that the login was rejected.
VerdictBounced(landing) ==
  IF landing = "login page" THEN "auth" ELSE
  IF landing \in {"select utility", "other app"} THEN "unsupported" ELSE "transport"

Verdict(landing) ==
  IF landing \in {"select utility", "other app"} THEN "unsupported" ELSE "transport"

LandElsewhere(c) ==
  /\ client[c].step = "landing"
  /\ ~healthy
  /\ \E landing \in Landings : LoginFails(c, Verdict(landing))
  /\ UNCHANGED <<portalVars, file, late>>

\* Logged in: a dialog has validated what it was given, a cycle goes on.
LandInApp(c) ==
  /\ client[c].step = "landing"
  /\ \/ c \in Dialogs /\ client[c].of = NULL /\ CreateEntry(c)
     \/ c \in Dialogs /\ client[c].of # NULL /\ UpdateEntry(c)
     \/ /\ c \in Cycles
        /\ client' = [client EXCEPT ![c].step = "pages", ![c].password = NULL,
                                     ![c].never = FALSE]
        /\ UNCHANGED <<entry, file>>
  /\ UNCHANGED <<portalVars, late>>

Login(c) ==
  PostAccepted(c) \/ PostRejected(c) \/ PostFails(c) \/ LandElsewhere(c) \/ LandInApp(c)

-----------------------------------------------------------------------------
(* Cycles *)

\* A timer or a press of a loaded entry, or the first refresh of a setup.  The
\* client is made with the entry's password.  (Cycles take the lowest number.)
StartCycle(c, e) ==
  /\ c \in Cycles /\ client[c].step = "idle" /\ MayStart
  /\ \A b \in Cycles : b < c => client[b].step # "idle"
  /\ \/ entry[e].state = "loaded"
     \/ entry[e].state = "setup" /\ \A r \in Running(e) : client[r].stray
  /\ client' = [client EXCEPT ![c] =
       [Idle EXCEPT !.step = "ask", !.of = e, !.password = entry[e].password]]
  /\ file' = Touched(file, e)
  /\ UNCHANGED <<portalVars, entry, late>>

\* Startup with a recent archive: the portal is left alone.
SkipNetwork(e) ==
  /\ entry[e].state = "setup" /\ \A r \in Running(e) : client[r].stray
  /\ file[e] = "fetched"
  /\ entry' = [entry EXCEPT ![e].state = "loaded"]
  /\ UNCHANGED <<portalVars, file, client, late>>

\* never_fetched is read after the client has its password.
AskArchive(c) ==
  /\ client[c].step = "ask"
  /\ client' = [client EXCEPT ![c].step = "post",
                              ![c].never = file[client[c].of] # "fetched"]
  /\ file' = Touched(file, client[c].of)
  /\ UNCHANGED <<portalVars, entry, late>>

CycleSucceeds(c) ==
  /\ client[c].step = "pages"
  /\ file' = [file EXCEPT ![client[c].of] = "fetched"]
  /\ entry' = Settled(client[c].of, c, "loaded")
  /\ client' = [client EXCEPT ![c] = Idle]
  /\ UNCHANGED <<portalVars, late>>

\* The session expired, a page is not understood, the meter is not known, the
\* portal is gone, an exception no handler maps: all of them fail the update.
\* The daily table may have been archived before.
PagesFail(c) ==
  /\ client[c].step = "pages"
  /\ ~healthy
  /\ file' \in {Touched(file, client[c].of), [file EXCEPT ![client[c].of] = "fetched"]}
  /\ UpdateFails(c)
  /\ UNCHANGED <<portalVars, late>>

-----------------------------------------------------------------------------
(* Dialogs *)

\* Mutant: the unique id is set only when the entry is created.
SubmitUserUnchecked(d) ==
  /\ client[d].step \in {"idle", "form"} /\ client[d].of = NULL
  /\ MayStart /\ Unused # {}
  /\ \E p \in Passwords :
       client' = [client EXCEPT ![d] =
         [Idle EXCEPT !.step = "post", !.password = p, !.named = TRUE]]
  /\ UNCHANGED <<portalVars, entry, file, late>>

\* A dialog is opened, or its form shown again, and submitted: async_step_user.
\* Home Assistant refuses the unique id to a second dialog, and the dialog ends
\* when an entry has it.
SubmitUser(d) ==
  /\ client[d].step \in {"idle", "form"} /\ client[d].of = NULL
  /\ \/ /\ \/ \E i \in Entries : Exists(i)
           \/ \E o \in Dialogs \ {d} : client[o].named
        /\ client' = [client EXCEPT ![d] = Idle]
     \/ /\ MayStart /\ Unused # {}
        /\ \A i \in Entries : ~Exists(i)
        /\ \A o \in Dialogs \ {d} : ~client[o].named
        /\ \E p \in Passwords :
             client' = [client EXCEPT ![d] =
               [Idle EXCEPT !.step = "post", !.password = p, !.named = TRUE]]
  /\ UNCHANGED <<portalVars, entry, file, late>>

\* async_step_reauth_confirm.
SubmitReauth(d) ==
  /\ client[d].step = "form" /\ client[d].of # NULL /\ MayStart
  /\ \E p \in Passwords :
       client' = [client EXCEPT ![d].step = "post", ![d].password = p]
  /\ UNCHANGED <<portalVars, entry, file, late>>

\* The user closes a dialog for a new entry.
CloseDialog(d) ==
  /\ client[d].step = "form" /\ client[d].of = NULL
  /\ client' = [client EXCEPT ![d] = Idle]
  /\ UNCHANGED <<portalVars, entry, file, late>>

-----------------------------------------------------------------------------
(* Home Assistant and the portal *)

\* What an unload leaves running.
Unloaded(e) == [c \in Clients |->
  IF c \in Cycles /\ client[c].of = e THEN [client[c] EXCEPT !.stray = TRUE]
                                      ELSE client[c]]

\* A scheduled reload: unload and set up again.
Reload(e) ==
  /\ entry[e].reload
  /\ entry[e].state \in {"loaded", "retry", "error"}
  /\ entry' = [entry EXCEPT ![e].state = "setup", ![e].reload = FALSE]
  /\ client' = Unloaded(e)
  /\ UNCHANGED <<portalVars, file, late>>

\* A scheduled reload takes the place of the retry.
RetrySetup(e) ==
  /\ entry[e].state = "retry" /\ ~entry[e].reload
  /\ entry' = [entry EXCEPT ![e].state = "setup"]
  /\ UNCHANGED <<portalVars, file, client, late>>

\* Mutant: only an entry that has loaded has an archive.
DeleteLoaded(e) == IF entry[e].state = "loaded" THEN "none" ELSE file[e]

\* async_remove_entry deletes whatever file there is.
DeleteArchive(e) == "none"

\* The entry is unloaded, its dialog aborted, its archive deleted.
Remove(e) ==
  /\ entry[e].state \in {"loaded", "retry", "error"}
  /\ entry' = [entry EXCEPT ![e] = [NoEntry EXCEPT !.state = "removed"]]
  /\ client' = [c \in Clients |-> IF c \in Asking(e) THEN Idle ELSE Unloaded(e)[c]]
  /\ file' = [file EXCEPT ![e] = DeleteArchive(e)]
  /\ late' = IF Running(e) = {} THEN late ELSE late \cup {e}
  /\ UNCHANGED portalVars

ChangePassword ==
  /\ ~healthy
  /\ right' \in Passwords \ {right}
  /\ UNCHANGED <<healthy, recent, entry, file, client, late>>

CalmDown ==
  /\ recent
  /\ recent' = FALSE
  /\ UNCHANGED <<right, healthy, entry, file, client, late>>

PortalRecovers ==
  /\ ~healthy
  /\ healthy' = TRUE
  /\ UNCHANGED <<right, recent, entry, file, client, late>>

Init ==
  /\ right \in Passwords
  /\ healthy = FALSE
  /\ recent = FALSE
  /\ entry = [e \in Entries |-> NoEntry]
  /\ file = [e \in Entries |-> "none"]
  /\ client = [c \in Clients |-> Idle]
  /\ late = {}

CycleStep(c) ==
  \/ c \in Cycles /\ Login(c)
  \/ AskArchive(c)
  \/ CycleSucceeds(c)
  \/ PagesFail(c)

Refresh(e) ==
  \/ \E c \in Cycles : StartCycle(c, e)
  \/ SkipNetwork(e)

Next ==
  \/ \E c \in Cycles : CycleStep(c)
  \/ \E d \in Dialogs :
       Login(d) \/ SubmitUser(d) \/ SubmitReauth(d) \/ CloseDialog(d)
  \/ \E e \in Entries : Refresh(e) \/ Reload(e) \/ RetrySetup(e) \/ Remove(e)
  \/ ChangePassword
  \/ CalmDown
  \/ PortalRecovers

Spec == Init /\ [][Next]_vars

\* Every request ends, Home Assistant starts a first refresh, retries a
\* failed setup and reloads what it has scheduled, and the portal does not refuse
\* right credentials for ever.
FairSpec ==
  /\ Spec
  /\ \A c \in Cycles : WF_vars(CycleStep(c)) /\ SF_vars(PostAccepted(c))
  /\ \A e \in Entries : WF_vars(RetrySetup(e)) /\ WF_vars(Reload(e))
       /\ WF_vars(entry[e].state = "setup" /\ Refresh(e))

-----------------------------------------------------------------------------
(* Properties *)

\* A cycle opens a re-authentication only when the portal has answered its POST
\* with a rejection of the very password the entry holds by then; so that password
\* is wrong, unless the portal was failing or another login had just been
\* answered.  Excepted is a cycle older than the stored password: a stray, or one
\* of an entry about to be reloaded.
ReauthWarranted ==
  [][\A c \in Cycles, d \in Dialogs :
       LET e == client[c].of IN
       /\ client[c].step # "idle" /\ client'[c].step = "idle"
       /\ client[d].step = "idle" /\ client'[d].of = e /\ e # NULL
       /\ ~client[c].stray /\ ~entry[e].reload
       => /\ client[c].step = "post" /\ client[c].password = entry[e].password
          /\ healthy /\ ~recent => entry[e].password # right]_vars

\* An entry whose archive never saw a successful fetch is not sent to
\* re-authentication ("Bouncing the user into re-authentication for that would
\* be wrong; setup retries instead", coordinator.py).
NewEntryNotBounced ==
  \A e \in Entries : Asking(e) # {} => file[e] = "fetched"

\* Nothing but the removal of its entry makes an archive with readings go,
\* however often the account is added again.
ArchiveKept ==
  [][\A e \in Entries : file[e] = "fetched" /\ file'[e] # "fetched" => Remove(e)]_vars

\* A removed entry leaves no archive behind ("Delete the archive database when
\* the entry is removed", __init__.py), unless a cycle of its was still running:
\* the cycle creates the file again.
ArchiveGone ==
  \A e \in Entries \ late : entry[e].state = "removed" => file[e] = "none"

\* The right password is enough: an entry that never fetched is loaded at last,
\* however often the portal rejects a login that follows another too closely.
RightPasswordLoads ==
  \A e \in Entries :
    healthy /\ entry[e].state \in {"setup", "retry"}
      /\ entry[e].password = right /\ file[e] # "fetched"
    ~> entry[e].state \in {"loaded", "removed"}
=============================================================================
