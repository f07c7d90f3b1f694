---------------------------- MODULE WifiSelection ----------------------------
(***************************************************************************)
(* WifiSelectionActivity and the credential store behind it: the screen    *)
(* tries the saved networks by itself (the last one first, then those a    *)
(* scan finds, each at most once), shows the networks found, asks for a    *)
(* name or a password, connects, and offers to save or to forget.          *)
(*                                                                         *)
(* The Wi-Fi driver runs in a task of its own and is external: what the    *)
(* screen knows of it is the answer of WiFi.status() in a later loop().    *)
(* A password is "right", "wrong" or "none" (empty) for the network it is  *)
(* meant for.  Signal strength only orders the saved networks, so the next *)
(* one to try is any of them.                                              *)
(***************************************************************************)
EXTENDS Naturals, FiniteSets

CONSTANTS
    Ssids,        \* names of networks
    Open,         \* the ones without encryption
    MaxNetworks,  \* WifiCredentialStore::MAX_NETWORKS
    NoSsid        \* the empty name

ASSUME WifiAssumption ==
    /\ Open \subseteq Ssids /\ NoSsid \notin Ssids /\ MaxNetworks \in Nat

VARIABLES
    screen,        \* state, or "closed" without the activity
    keyboard,      \* the keyboard is open above the screen
    auto,          \* autoConnecting
    attempted,     \* autoAttemptedSsids
    selected,      \* selectedSSID
    password,      \* enteredPassword
    requires,      \* selectedRequiresPassword
    usedSaved,     \* usedSavedPassword
    networks,      \* the list: [real, marked] or <<>> when it is empty
    creds,         \* the store: per network its password or "none"
    lastConnected, \* lastConnectedSsid
    link           \* the driver: [ssid, key, status]

choice == <<selected, password, requires, usedSaved>>
store == <<creds, lastConnected>>
wifiVars == <<screen, keyboard, auto, attempted, choice, networks, store, link>>

Passwords == {"none", "right", "wrong"}
Saved == {s \in Ssids : creds[s] # "none"}
Off == [ssid |-> NoSsid, key |-> "none", status |-> "idle"]
NoList == [real |-> {}, marked |-> {}, scanned |-> FALSE]

Accepts(s, key) == s \in Open \/ key = "right"

Choose(s, key, req, fromStore) ==
    /\ selected' = s /\ password' = key
    /\ requires' = req /\ usedSaved' = fromStore

WifiClosed ==
    /\ screen' = "closed" /\ keyboard' = FALSE /\ auto' = FALSE
    /\ attempted' = {} /\ networks' = NoList
    /\ Choose(NoSsid, "none", FALSE, FALSE)

-----------------------------------------------------------------------------
(* Steps the handlers share. *)

\* startWifiScan(): the list is dropped and the link with it.
ScanAgain(byItself) ==
    /\ screen' = "SCANNING" /\ auto' = byItself
    /\ networks' = NoList /\ link' = Off

\* attemptConnection(): whatever the driver was doing is aborted first.
KeepLink(s, key) == \* mutant: the driver is still busy with the last one
    link' = IF link.status = "idle" /\ link.ssid # NoSsid THEN link
            ELSE [ssid |-> s, key |-> key, status |-> "idle"]
Abort(s, key) == link' = [ssid |-> s, key |-> key, status |-> "idle"]

Attempt(byItself, s, key, req) ==
    /\ screen' = IF byItself THEN "AUTO_CONNECTING" ELSE "CONNECTING"
    /\ auto' = byItself
    /\ Abort(s, IF req THEN key ELSE "none")

\* tryAutoConnectCredential(): a network is tried by itself only once.
Forgetful(s) == attempted' = attempted \* mutant: the attempt is not recorded
Remember(s) == attempted' = attempted \cup {s}

TryCredential(s) ==
    /\ s \in Saved \ attempted
    /\ Remember(s)
    /\ Choose(s, creds[s], TRUE, TRUE)
    /\ Attempt(TRUE, s, creds[s], TRUE)

Untried(list) == (list.marked \cap Saved) \ attempted

\* tryNextSavedNetworkFromScan(), or else the list is shown.
TryNextOrList(list) ==
    /\ networks' = list
    /\ \/ \E s \in Untried(list) : TryCredential(s)
       \/ /\ Untried(list) = {}
          /\ screen' = "NETWORK_LIST" /\ auto' = FALSE /\ link' = Off
          /\ UNCHANGED <<attempted, choice>>

-----------------------------------------------------------------------------
(* Opening the screen: onEnter(). *)

Opened == keyboard' = FALSE /\ UNCHANGED store

OpenWifi(allowAuto) ==
    /\ screen = "closed" /\ Opened
    /\ \/ /\ allowAuto /\ lastConnected \in Saved
          /\ networks' = NoList
          /\ TryCredential(lastConnected)
       \/ /\ ~(allowAuto /\ lastConnected \in Saved)
          /\ ScanAgain(allowAuto /\ Saved # {})
          /\ UNCHANGED <<attempted, choice>>

-----------------------------------------------------------------------------
(* loop() while it scans and connects. *)

Staying == UNCHANGED <<keyboard, store>>

\* processWifiScanResults() once the driver found some networks.
ScanDone(found) ==
    LET list == [real |-> found, marked |-> found \cap Saved, scanned |-> TRUE]
    IN /\ screen = "SCANNING" /\ Staying
       /\ \/ auto /\ TryNextOrList(list)
          \/ /\ ~auto /\ networks' = list
             /\ screen' = "NETWORK_LIST"
             /\ UNCHANGED <<auto, attempted, choice, link>>

ScanFailed ==
    /\ screen = "SCANNING" /\ Staying
    /\ networks' = [NoList EXCEPT !.scanned = TRUE]
    /\ screen' = "NETWORK_LIST" /\ auto' = FALSE
    /\ UNCHANGED <<attempted, choice, link>>

Connecting == screen \in {"CONNECTING", "AUTO_CONNECTING"}

\* checkConnectionStatus(): the link is up.
LinkUp ==
    /\ Connecting /\ link.status = "connected"
    /\ auto' = FALSE /\ lastConnected' = selected
    /\ screen' = IF ~usedSaved /\ password # "none"
                 THEN "SAVE_PROMPT" ELSE "CONNECTED"
    /\ UNCHANGED <<keyboard, attempted, choice, networks, creds, link>>

\* handleAutoConnectFailure(), or the error screen.
AttemptOver(afterwards) ==
    /\ Staying
    /\ \/ auto /\ networks.scanned /\ TryNextOrList(networks)
       \/ /\ auto /\ ~networks.scanned /\ ScanAgain(TRUE)
          /\ UNCHANGED <<attempted, choice>>
       \/ /\ ~auto /\ screen' = "CONNECTION_FAILED" /\ link' = afterwards
          /\ UNCHANGED <<auto, attempted, choice, networks>>

Refused ==
    /\ Connecting /\ link.status \in {"failed", "noSsid"}
    /\ AttemptOver(link)

\* The time limit passed without an answer; the attempt is given up.
TimedOut ==
    /\ Connecting /\ link.status \in {"idle", "lost"}
    /\ AttemptOver(Off)

-----------------------------------------------------------------------------
(* The list and the prompts. *)

AskPassword == screen' = "PASSWORD_ENTRY" /\ keyboard' = TRUE
               /\ UNCHANGED <<auto, link>>

\* selectNetwork() of a network in the list.
SelectNetwork(s) ==
    /\ screen = "NETWORK_LIST" /\ ~keyboard /\ s \in networks.real
    /\ UNCHANGED <<attempted, networks, store>>
    /\ \/ /\ s \in Saved
          /\ Choose(s, creds[s], s \notin Open, TRUE)
          /\ Attempt(FALSE, s, creds[s], s \notin Open)
          /\ UNCHANGED keyboard
       \/ /\ s \notin Saved
          /\ Choose(s, "none", s \notin Open, FALSE)
          /\ \/ s \notin Open /\ AskPassword
             \/ s \in Open /\ Attempt(FALSE, s, "none", FALSE)
                /\ UNCHANGED keyboard

\* "Add hidden network..."; the empty list offers a new scan instead.
PromptHiddenSsid ==
    /\ screen = "NETWORK_LIST" /\ networks.real # {}
    /\ screen' = "HIDDEN_SSID_ENTRY" /\ keyboard' = TRUE
    /\ Choose(NoSsid, "none", TRUE, FALSE)
    /\ auto' = FALSE
    /\ UNCHANGED <<attempted, networks, store, link>>

\* The keyboard returns: the name, the password, or nothing.
TypeSsid(s) ==
    /\ screen = "HIDDEN_SSID_ENTRY" /\ keyboard
    /\ keyboard' = FALSE /\ selected' = s
    /\ screen' = IF s = NoSsid THEN "NETWORK_LIST" ELSE screen
    /\ UNCHANGED <<auto, attempted, password, requires, usedSaved, networks,
                   store, link>>

TypePassword(p) ==
    /\ screen = "PASSWORD_ENTRY" /\ keyboard
    /\ keyboard' = FALSE /\ password' = p
    /\ UNCHANGED <<screen, auto, attempted, selected, requires, usedSaved,
                   networks, store, link>>

CancelKeyboard ==
    /\ keyboard /\ keyboard' = FALSE
    /\ screen' = "NETWORK_LIST"
    /\ UNCHANGED <<auto, attempted, choice, networks, store, link>>

\* loop() after the keyboard returned.
Continue ==
    /\ ~keyboard /\ UNCHANGED <<attempted, networks, store>>
    /\ \/ /\ screen = "HIDDEN_SSID_ENTRY" /\ selected \in Saved
          /\ Choose(selected, creds[selected], requires, TRUE)
          /\ Attempt(auto, selected, creds[selected], requires)
          /\ UNCHANGED keyboard
       \/ /\ screen = "HIDDEN_SSID_ENTRY" /\ selected \notin Saved
          /\ AskPassword /\ UNCHANGED choice
       \/ /\ screen = "PASSWORD_ENTRY"
          /\ Attempt(auto, selected, password, requires)
          /\ UNCHANGED <<keyboard, choice>>

\* addCredential(): a full store refuses, and nobody is told.
AddCredential(s, p) ==
    creds' = IF s \in Saved \/ Cardinality(Saved) < MaxNetworks
             THEN [creds EXCEPT ![s] = p] ELSE creds

RemoveCredential(s) ==
    /\ creds' = [creds EXCEPT ![s] = "none"]
    /\ lastConnected' = IF s \in Saved /\ lastConnected = s
                        THEN NoSsid ELSE lastConnected

SavePrompt(yes) ==
    /\ screen = "SAVE_PROMPT" /\ screen' = "CONNECTED"
    /\ IF yes THEN AddCredential(selected, password) ELSE UNCHANGED creds
    /\ UNCHANGED <<keyboard, auto, attempted, choice, networks,
                   lastConnected, link>>

BackToList == \* mutant: the list shown before is shown again
    /\ screen' = "NETWORK_LIST" /\ UNCHANGED <<auto, networks, link>>
Rescan == ScanAgain(FALSE)

ForgetPrompt(yes) ==
    /\ screen = "FORGET_PROMPT"
    /\ IF yes THEN RemoveCredential(selected) ELSE UNCHANGED store
    /\ Rescan
    /\ UNCHANGED <<keyboard, attempted, choice>>

\* Back on the error screen.
LeaveError ==
    /\ screen = "CONNECTION_FAILED"
    /\ screen' = IF usedSaved THEN "FORGET_PROMPT" ELSE "NETWORK_LIST"
    /\ auto' = FALSE
    /\ UNCHANGED <<keyboard, attempted, choice, networks, store, link>>

\* Left on a saved network.
AskForget(s) ==
    /\ screen = "NETWORK_LIST" /\ s \in networks.marked
    /\ screen' = "FORGET_PROMPT" /\ selected' = s
    /\ UNCHANGED <<keyboard, auto, attempted, password, requires, usedSaved,
                   networks, store, link>>

\* Right, or Confirm on the empty list.
ScanFromList ==
    /\ screen = "NETWORK_LIST" /\ ScanAgain(FALSE)
    /\ UNCHANGED <<attempted, choice>> /\ Staying

\* onComplete(): the link is left to the activity that asked.
Complete(success) ==
    /\ screen = IF success THEN "CONNECTED" ELSE "NETWORK_LIST"
    /\ WifiClosed /\ UNCHANGED <<store, link>>

-----------------------------------------------------------------------------
(* The driver, and the credentials page of the web server. *)

LinkGoes(status) ==
    /\ link' = [link EXCEPT !.status = status, !.key = "none"]
    /\ UNCHANGED <<screen, keyboard, auto, attempted, choice, networks, store>>

Associates ==
    /\ link.status = "idle" /\ link.ssid # NoSsid
    /\ Accepts(link.ssid, link.key)
    /\ LinkGoes("connected")
IsRefused == link.status = "idle" /\ link.ssid # NoSsid
             /\ \E s \in {"failed", "noSsid"} : LinkGoes(s)
IsLost == link.status = "connected" /\ LinkGoes("lost")

WebCredential(s, p) ==
    /\ screen = "closed"
    /\ \/ p # "none" /\ AddCredential(s, p) /\ UNCHANGED lastConnected
       \/ p = "none" /\ RemoveCredential(s)
    /\ UNCHANGED <<screen, keyboard, auto, attempted, choice, networks, link>>

-----------------------------------------------------------------------------
(* The screen by itself. *)

WifiInit ==
    /\ screen = "closed" /\ keyboard = FALSE /\ auto = FALSE /\ attempted = {}
    /\ selected = NoSsid /\ password = "none" /\ requires = FALSE
    /\ usedSaved = FALSE /\ networks = NoList
    /\ creds = [s \in Ssids |-> "none"] /\ lastConnected = NoSsid
    /\ link = Off

Loops ==
    \/ \E found \in SUBSET Ssids : ScanDone(found)
    \/ ScanFailed \/ LinkUp \/ Refused \/ TimedOut \/ Continue
User ==
    \/ \E s \in Ssids : SelectNetwork(s) \/ AskForget(s)
    \/ PromptHiddenSsid \/ CancelKeyboard
    \/ \E s \in Ssids \cup {NoSsid} : TypeSsid(s)
    \/ \E p \in Passwords : TypePassword(p)
    \/ \E yes \in BOOLEAN : SavePrompt(yes) \/ ForgetPrompt(yes)
    \/ LeaveError \/ ScanFromList
Driver == Associates \/ IsRefused \/ IsLost
WifiStep == Loops \/ User \/ Driver

\* loop() runs, the clock of the driver's scan and of the time limit advances.
WifiFairness == WF_wifiVars(Loops)

-----------------------------------------------------------------------------
(* Properties. *)

Screens == {"closed", "SCANNING", "NETWORK_LIST", "HIDDEN_SSID_ENTRY",
            "PASSWORD_ENTRY", "CONNECTING", "AUTO_CONNECTING", "SAVE_PROMPT",
            "CONNECTED", "CONNECTION_FAILED", "FORGET_PROMPT"}
Lists == [real : SUBSET Ssids, marked : SUBSET Ssids, scanned : BOOLEAN]
Links == [ssid : Ssids \cup {NoSsid}, key : Passwords,
          status : {"idle", "connected", "failed", "noSsid", "lost"}]

WifiTypeOK ==
    /\ screen \in Screens /\ keyboard \in BOOLEAN /\ auto \in BOOLEAN
    /\ attempted \subseteq Ssids /\ selected \in Ssids \cup {NoSsid}
    /\ password \in Passwords /\ requires \in BOOLEAN /\ usedSaved \in BOOLEAN
    /\ networks \in Lists /\ creds \in [Ssids -> Passwords]
    /\ lastConnected \in Ssids \cup {NoSsid} /\ link \in Links

\* The screens that report success name the network the driver is linked to,
\* it is the one tried first the next time, and a password they offer to save
\* is one it accepted: through every order of prompts, timeouts and retries no
\* answer to an earlier attempt is taken for this one (458-503, 572-579).
ReportsItsNetwork ==
    screen \in {"SAVE_PROMPT", "CONNECTED"} =>
        /\ link.ssid = selected /\ lastConnected = selected
        /\ screen = "SAVE_PROMPT" => Accepts(selected, password)

\* The marks of the list, which decide what Left and a selection do, agree
\* with the store although they are taken once, when the scan ends (204, 595).
ListMatchesStore ==
    screen = "NETWORK_LIST" => networks.marked = networks.real \cap Saved

\* Trying the saved networks ends although each failure scans or tries again:
\* every network is tried once and every attempt has a time limit.
AutoConnectEnds == auto ~> ~auto
=============================================================================
