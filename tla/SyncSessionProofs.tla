------------------------- MODULE SyncSessionProofs -------------------------
(***************************************************************************)
(* What holds of the Wi-Fi screen and of a sync over it for any number of  *)
(* networks and any range of positions.  The Wi-Fi screen comes first, by  *)
(* itself; then the sync; then the session that joins them.                *)
(***************************************************************************)
EXTENDS SyncSession, TLAPS

(***************************************************************************)
(* Records.  What a member of the two record sets is made of.              *)
(***************************************************************************)
LEMMA LinkHasFields ==
  ASSUME NEW l \in Links
  PROVE  /\ l.ssid \in Ssids \cup {NoSsid} /\ l.key \in Passwords
         /\ l.status \in {"idle", "connected", "failed", "noSsid", "lost"}
BY DEF Links

WithStatus(l, status) == [l EXCEPT !.status = status, !.key = "none"]

LEMMA LinkWithStatus ==
  ASSUME NEW l \in Links,
         NEW status \in {"idle", "connected", "failed", "noSsid", "lost"}
  PROVE  LET m == WithStatus(l, status) IN
         m \in Links /\ m.ssid = l.ssid /\ m.status = status
BY DEF WithStatus, Links, Passwords

LEMMA NewLink ==
  ASSUME NEW s \in Ssids \cup {NoSsid}, NEW key \in Passwords, NEW l,
         l = [ssid |-> s, key |-> key, status |-> "idle"]
  PROVE  l \in Links /\ l.ssid = s /\ l.key = key /\ l.status = "idle"
BY DEF Links

LEMMA NoLinkIsALink == Off \in Links
BY DEF Off, Links, Passwords

LEMMA NewList ==
  ASSUME NEW r \in SUBSET Ssids, NEW k \in SUBSET Ssids, NEW b \in BOOLEAN
  PROVE  [real |-> r, marked |-> k, scanned |-> b] \in Lists
BY DEF Lists

LEMMA ScannedEmpty ==
  /\ NoList \in Lists /\ [NoList EXCEPT !.scanned = TRUE] \in Lists
  /\ NoList.real = {} /\ NoList.marked = {}
  /\ [NoList EXCEPT !.scanned = TRUE].real = {}
  /\ [NoList EXCEPT !.scanned = TRUE].marked = {}
BY DEF NoList, Lists


-----------------------------------------------------------------------------
(* The Wi-Fi screen. *)

(***************************************************************************)
(* The keyboard is above a prompt; a closed screen keeps no list; the      *)
(* driver works on the network selected, with its key, from the start of   *)
(* the attempt to the end; the marks of the list agree with the store      *)
(* until a save prompt changes it.                                         *)
(***************************************************************************)
KeyboardAbove == keyboard => screen \in {"HIDDEN_SSID_ENTRY", "PASSWORD_ENTRY"}
ClosedIsEmpty == screen = "closed" => networks = NoList
KeyFor == IF requires THEN password ELSE "none"
AttemptIsSelected ==
    Connecting =>
        /\ link.ssid = selected
        /\ link.status = "idle" => link.key = KeyFor
        /\ link.status = "connected" => Accepts(selected, password)
ListIsCurrent == screen # "CONNECTED" => networks.marked = networks.real \cap Saved

WifiInv ==
    /\ WifiTypeOK /\ KeyboardAbove /\ ClosedIsEmpty
    /\ AttemptIsSelected /\ ReportsItsNetwork /\ ListIsCurrent

ChoiceOK ==
    /\ selected \in Ssids \cup {NoSsid} /\ password \in Passwords
    /\ requires \in BOOLEAN /\ usedSaved \in BOOLEAN

\* What an attempt leaves, whoever starts it.
LEMMA AttemptStarts ==
  ASSUME NEW byItself \in BOOLEAN, NEW s \in Ssids \cup {NoSsid},
         NEW key \in Passwords, NEW req \in BOOLEAN,
         Attempt(byItself, s, key, req),
         selected' = s, password' = key, requires' = req
  PROVE  /\ screen' \in {"AUTO_CONNECTING", "CONNECTING"}
         /\ auto' \in BOOLEAN /\ link' \in Links /\ AttemptIsSelected'
<1> DEFINE k == IF req THEN key ELSE "none"
<1>1. k \in Passwords
  BY DEF Passwords
<1>2. link' = [ssid |-> s, key |-> k, status |-> "idle"]
  BY DEF Attempt, Abort
<1>3. link' \in Links /\ link'.ssid = s /\ link'.key = k /\ link'.status = "idle"
  BY <1>1, <1>2, NewLink
<1>4. AttemptIsSelected'
  BY <1>3 DEF AttemptIsSelected, KeyFor
<1> QED
  BY <1>3, <1>4 DEF Attempt

LEMMA CredentialTried ==
  ASSUME NEW s, WifiTypeOK, TryCredential(s)
  PROVE  /\ screen' = "AUTO_CONNECTING" /\ auto' \in BOOLEAN
         /\ attempted' \subseteq Ssids /\ ChoiceOK'
         /\ link' \in Links /\ AttemptIsSelected'
<1>1. s \in Ssids /\ creds[s] \in Passwords
  BY DEF TryCredential, Saved, WifiTypeOK
<1>2. /\ Attempt(TRUE, s, creds[s], TRUE)
      /\ selected' = s /\ password' = creds[s] /\ requires' = TRUE
      /\ usedSaved' = TRUE
  BY DEF TryCredential, Choose
<1>3. screen' = "AUTO_CONNECTING"
  BY <1>2 DEF Attempt
<1>4. auto' \in BOOLEAN /\ link' \in Links /\ AttemptIsSelected'
  BY <1>1, <1>2, AttemptStarts
<1>5. attempted' \subseteq Ssids
  BY <1>1 DEF TryCredential, Remember, WifiTypeOK
<1> QED
  BY <1>1, <1>2, <1>3, <1>4, <1>5 DEF ChoiceOK

\* The next saved network, or the list.
LEMMA NextOrList ==
  ASSUME NEW list \in Lists, list.marked = list.real \cap Saved,
         WifiInv, UNCHANGED store, UNCHANGED keyboard, ~keyboard,
         TryNextOrList(list)
  PROVE  WifiInv'
<1>1. networks' = list /\ networks' \in Lists
  BY DEF TryNextOrList
<1>2. networks'.marked = networks'.real \cap Saved'
  BY <1>1 DEF Saved, store
<1>3. CASE \E s \in Untried(list) : TryCredential(s)
  <2> PICK s \in Untried(list) : TryCredential(s)
    BY <1>3
  <2>1. /\ screen' = "AUTO_CONNECTING" /\ auto' \in BOOLEAN
        /\ attempted' \subseteq Ssids /\ ChoiceOK'
        /\ link' \in Links /\ AttemptIsSelected'
    BY CredentialTried DEF WifiInv
  <2>2. WifiTypeOK'
    BY <1>1, <2>1 DEF WifiTypeOK, WifiInv, ChoiceOK, store, Screens
  <2> QED
    BY <1>2, <2>1, <2>2 DEF WifiInv, KeyboardAbove, ClosedIsEmpty,
       ReportsItsNetwork, ListIsCurrent
<1>4. CASE /\ screen' = "NETWORK_LIST" /\ auto' = FALSE /\ link' = Off
           /\ UNCHANGED <<attempted, choice>>
  <2>1. WifiTypeOK'
    BY <1>1, <1>4, NoLinkIsALink DEF WifiTypeOK, WifiInv, choice, store, Screens
  <2> QED
    BY <1>2, <1>4, <2>1 DEF WifiInv, KeyboardAbove, ClosedIsEmpty,
       ReportsItsNetwork, ListIsCurrent, AttemptIsSelected, Connecting
<1> QED
  BY <1>3, <1>4 DEF TryNextOrList

\* A screen that neither connects nor reports leaves less to show.
Resting == {"SCANNING", "NETWORK_LIST", "HIDDEN_SSID_ENTRY", "PASSWORD_ENTRY",
            "CONNECTION_FAILED", "FORGET_PROMPT"}

LEMMA RestingKeeps ==
  ASSUME WifiTypeOK', screen' \in Resting, KeyboardAbove', ListIsCurrent'
  PROVE  WifiInv'
BY DEF WifiInv, Resting, ClosedIsEmpty, AttemptIsSelected, Connecting,
   ReportsItsNetwork

LEMMA ConnectingKeeps ==
  ASSUME WifiTypeOK', screen' \in {"CONNECTING", "AUTO_CONNECTING"},
         keyboard' = FALSE, AttemptIsSelected', ListIsCurrent'
  PROVE  WifiInv'
BY DEF WifiInv, KeyboardAbove, ClosedIsEmpty, ReportsItsNetwork

LEMMA SameStore ==
  ASSUME UNCHANGED store
  PROVE  Saved' = Saved
BY DEF store, Saved

LEMMA SameList ==
  ASSUME ListIsCurrent, screen # "CONNECTED", UNCHANGED <<networks, store>>
  PROVE  ListIsCurrent'
BY SameStore DEF ListIsCurrent


\* startWifiScan().
LEMMA ScanStarts ==
  ASSUME NEW byItself \in BOOLEAN, ScanAgain(byItself)
  PROVE  /\ screen' = "SCANNING" /\ auto' \in BOOLEAN
         /\ networks' \in Lists /\ link' \in Links /\ ListIsCurrent'
<1>1. networks' = NoList /\ link' = Off
  BY DEF ScanAgain
<1>2. networks'.marked = {} /\ networks'.real = {}
  BY <1>1, ScannedEmpty
<1> QED
  BY <1>1, <1>2, ScannedEmpty, NoLinkIsALink DEF ScanAgain, ListIsCurrent

LEMMA ScanKeeps ==
  ASSUME WifiTypeOK, NEW byItself \in BOOLEAN, ScanAgain(byItself),
         ~keyboard, UNCHANGED <<keyboard, attempted, choice>>,
         creds' \in [Ssids -> Passwords],
         lastConnected' \in Ssids \cup {NoSsid}
  PROVE  WifiInv'
<1>1. /\ screen' = "SCANNING" /\ auto' \in BOOLEAN
      /\ networks' \in Lists /\ link' \in Links /\ ListIsCurrent'
  BY ScanStarts
<1>2. WifiTypeOK'
  BY <1>1 DEF WifiTypeOK, choice, Screens
<1> QED
  BY <1>1, <1>2, RestingKeeps DEF Resting, KeyboardAbove

(***************************************************************************)
(* loop() while it scans and connects.                                     *)
(***************************************************************************)
LEMMA ScanDoneKeeps ==
  ASSUME WifiInv, NEW found \in SUBSET Ssids, ScanDone(found)
  PROVE  WifiInv'
<1> DEFINE list == [real |-> found, marked |-> found \cap Saved, scanned |-> TRUE]
<1>1. list \in Lists /\ list.marked = list.real \cap Saved
  BY NewList DEF Saved
<1>2. ~keyboard /\ UNCHANGED keyboard /\ UNCHANGED store
  BY DEF ScanDone, Staying, WifiInv, KeyboardAbove
<1>3. CASE TryNextOrList(list)
  BY <1>1, <1>2, <1>3, NextOrList
<1>4. CASE /\ networks' = list /\ screen' = "NETWORK_LIST"
           /\ UNCHANGED <<auto, attempted, choice, link>>
  <2>1. WifiTypeOK'
    BY <1>1, <1>2, <1>4 DEF WifiInv, WifiTypeOK, choice, store, Screens
  <2>2. ListIsCurrent'
    BY <1>1, <1>2, <1>4, SameStore DEF ListIsCurrent
  <2> QED
    BY <1>2, <1>4, <2>1, <2>2, RestingKeeps DEF Resting, KeyboardAbove
<1> QED
  BY <1>3, <1>4 DEF ScanDone

LEMMA ScanFailedKeeps ==
  ASSUME WifiInv, ScanFailed
  PROVE  WifiInv'
<1>1. /\ screen' = "NETWORK_LIST" /\ auto' = FALSE /\ ~keyboard
      /\ UNCHANGED keyboard /\ UNCHANGED store /\ UNCHANGED <<attempted, choice, link>>
  BY DEF ScanFailed, Staying, WifiInv, KeyboardAbove
<1>2. networks' \in Lists /\ networks'.marked = {} /\ networks'.real = {}
  BY ScannedEmpty DEF ScanFailed
<1>3. WifiTypeOK'
  BY <1>1, <1>2 DEF WifiInv, WifiTypeOK, choice, store, Screens
<1> QED
  BY <1>1, <1>2, <1>3, RestingKeeps DEF Resting, KeyboardAbove, ListIsCurrent

LEMMA LinkUpKeeps ==
  ASSUME WifiInv, LinkUp
  PROVE  WifiInv'
<1>1. /\ Connecting /\ link.status = "connected"
      /\ auto' = FALSE /\ lastConnected' = selected
      /\ UNCHANGED <<keyboard, attempted, choice, networks, creds, link>>
      /\ screen' \in {"SAVE_PROMPT", "CONNECTED"}
  BY DEF LinkUp
<1>2. link.ssid = selected /\ Accepts(selected, password) /\ ~keyboard
  BY <1>1 DEF WifiInv, AttemptIsSelected, Connecting, KeyboardAbove
<1>3. WifiTypeOK'
  BY <1>1 DEF WifiInv, WifiTypeOK, choice, Screens
<1>4. ReportsItsNetwork'
  BY <1>1, <1>2 DEF ReportsItsNetwork, choice, Accepts
<1>5. ListIsCurrent'
  BY <1>1 DEF WifiInv, ListIsCurrent, Connecting, Saved
<1> QED
  BY <1>1, <1>2, <1>3, <1>4, <1>5
  DEF WifiInv, KeyboardAbove, ClosedIsEmpty, AttemptIsSelected, Connecting

LEMMA AttemptOverKeeps ==
  ASSUME WifiInv, Connecting, NEW afterwards \in Links, AttemptOver(afterwards)
  PROVE  WifiInv'
<1>1. ~keyboard /\ UNCHANGED keyboard /\ UNCHANGED store
  BY DEF AttemptOver, Staying, WifiInv, KeyboardAbove, Connecting
<1>2. CASE TryNextOrList(networks)
  <2>1. networks \in Lists /\ networks.marked = networks.real \cap Saved
    BY DEF WifiInv, WifiTypeOK, ListIsCurrent, Connecting
  <2> QED
    BY <1>1, <1>2, <2>1, NextOrList
<1>3. CASE ScanAgain(TRUE) /\ UNCHANGED <<attempted, choice>>
  BY <1>1, <1>3, ScanKeeps DEF WifiInv, WifiTypeOK, store
<1>4. CASE /\ screen' = "CONNECTION_FAILED" /\ link' = afterwards
           /\ UNCHANGED <<auto, attempted, choice, networks>>
  <2>1. WifiTypeOK'
    BY <1>1, <1>4 DEF WifiInv, WifiTypeOK, choice, store, Screens
  <2>2. ListIsCurrent'
    BY <1>1, <1>4, SameList DEF WifiInv, Connecting
  <2> QED
    BY <1>1, <1>4, <2>1, <2>2, RestingKeeps DEF Resting, KeyboardAbove
<1> QED
  BY <1>2, <1>3, <1>4 DEF AttemptOver

LEMMA RefusedKeeps ==
  ASSUME WifiInv, Refused \/ TimedOut
  PROVE  WifiInv'
<1>1. link \in Links /\ Off \in Links
  BY NoLinkIsALink DEF WifiInv, WifiTypeOK
<1> QED
  BY <1>1, AttemptOverKeeps DEF Refused, TimedOut

(***************************************************************************)
(* The prompts.                                                            *)
(***************************************************************************)
LEMMA AttemptKeeps ==
  ASSUME WifiInv, NEW byItself \in BOOLEAN, NEW s \in Ssids \cup {NoSsid},
         NEW key \in Passwords, NEW req \in BOOLEAN,
         Attempt(byItself, s, key, req), usedSaved' \in BOOLEAN,
         selected' = s, password' = key, requires' = req,
         ~keyboard, screen # "CONNECTED",
         UNCHANGED <<keyboard, attempted, networks, store>>
  PROVE  WifiInv'
<1>1. /\ screen' \in {"AUTO_CONNECTING", "CONNECTING"}
      /\ auto' \in BOOLEAN /\ link' \in Links /\ AttemptIsSelected'
  BY AttemptStarts
<1>2. WifiTypeOK'
  BY <1>1 DEF WifiInv, WifiTypeOK, store, Screens
<1>3. ListIsCurrent'
  BY SameList DEF WifiInv
<1> QED
  BY <1>1, <1>2, <1>3, ConnectingKeeps DEF WifiInv, WifiTypeOK

\* A screen opened with the list and the store as they are.
LEMMA PromptKeeps ==
  ASSUME WifiInv, screen # "CONNECTED", screen' \in Resting, KeyboardAbove',
         keyboard' \in BOOLEAN, auto' \in BOOLEAN, ChoiceOK', link' \in Links,
         UNCHANGED <<attempted, networks, store>>
  PROVE  WifiInv'
<1>1. WifiTypeOK'
  BY DEF WifiInv, WifiTypeOK, ChoiceOK, store, Screens, Resting
<1> QED
  BY <1>1, SameList, RestingKeeps DEF WifiInv

LEMMA SameChoice ==
  ASSUME WifiInv
  PROVE  /\ ChoiceOK /\ keyboard \in BOOLEAN /\ auto \in BOOLEAN
         /\ link \in Links /\ lastConnected \in Ssids \cup {NoSsid}
         /\ \A s \in Ssids : creds[s] \in Passwords
         /\ "none" \in Passwords
BY DEF WifiInv, WifiTypeOK, ChoiceOK, Passwords

LEMMA SelectNetworkKeeps ==
  ASSUME WifiInv, NEW s \in Ssids, SelectNetwork(s)
  PROVE  WifiInv'
<1>1. /\ ~keyboard /\ screen = "NETWORK_LIST"
      /\ UNCHANGED <<attempted, networks, store>>
      /\ creds[s] \in Passwords /\ "none" \in Passwords
      /\ (s \notin Open) \in BOOLEAN
  BY SameChoice DEF SelectNetwork
<1>2. CASE /\ Choose(s, creds[s], s \notin Open, TRUE)
           /\ Attempt(FALSE, s, creds[s], s \notin Open)
           /\ UNCHANGED keyboard
  BY <1>1, <1>2, AttemptKeeps DEF Choose
<1>3. CASE /\ Choose(s, "none", s \notin Open, FALSE)
           /\ Attempt(FALSE, s, "none", FALSE)
           /\ s \in Open /\ UNCHANGED keyboard
  BY <1>1, <1>3, AttemptKeeps DEF Choose
<1>4. CASE Choose(s, "none", s \notin Open, FALSE) /\ AskPassword
  <2>1. /\ screen' \in Resting /\ KeyboardAbove' /\ keyboard' \in BOOLEAN
        /\ auto' \in BOOLEAN /\ link' \in Links /\ ChoiceOK'
    BY <1>1, <1>4, SameChoice
    DEF AskPassword, Resting, KeyboardAbove, Choose, ChoiceOK
  <2> QED
    BY <1>1, <2>1, PromptKeeps
<1> QED
  BY <1>2, <1>3, <1>4 DEF SelectNetwork

LEMMA PromptHiddenSsidKeeps ==
  ASSUME WifiInv, PromptHiddenSsid
  PROVE  WifiInv'
<1>1. /\ screen = "NETWORK_LIST" /\ screen' \in Resting /\ KeyboardAbove'
      /\ keyboard' \in BOOLEAN /\ auto' \in BOOLEAN
      /\ UNCHANGED <<attempted, networks, store>> /\ link' \in Links
  BY SameChoice DEF PromptHiddenSsid, Resting, KeyboardAbove
<1>2. ChoiceOK'
  BY SameChoice DEF PromptHiddenSsid, Choose, ChoiceOK
<1> QED
  BY <1>1, <1>2, PromptKeeps

LEMMA TypeSsidKeeps ==
  ASSUME WifiInv, NEW s \in Ssids \cup {NoSsid}, TypeSsid(s)
  PROVE  WifiInv'
<1>1. /\ screen = "HIDDEN_SSID_ENTRY" /\ screen' \in Resting
      /\ keyboard' = FALSE /\ UNCHANGED <<auto, link>>
      /\ UNCHANGED <<attempted, networks, store>>
  BY DEF TypeSsid, Resting
<1>2. ChoiceOK'
  BY SameChoice DEF TypeSsid, ChoiceOK
<1> QED
  BY <1>1, <1>2, SameChoice, PromptKeeps DEF KeyboardAbove

LEMMA TypePasswordKeeps ==
  ASSUME WifiInv, NEW p \in Passwords, TypePassword(p)
  PROVE  WifiInv'
<1>1. /\ screen = "PASSWORD_ENTRY" /\ screen' \in Resting
      /\ keyboard' = FALSE /\ UNCHANGED <<auto, link>>
      /\ UNCHANGED <<attempted, networks, store>>
  BY DEF TypePassword, Resting
<1>2. ChoiceOK'
  BY SameChoice DEF TypePassword, ChoiceOK
<1> QED
  BY <1>1, <1>2, SameChoice, PromptKeeps DEF KeyboardAbove

LEMMA CancelKeyboardKeeps ==
  ASSUME WifiInv, CancelKeyboard
  PROVE  WifiInv'
<1>1. /\ screen # "CONNECTED" /\ screen' \in Resting
      /\ keyboard' = FALSE /\ UNCHANGED <<auto, link>>
      /\ UNCHANGED <<attempted, networks, store>> /\ UNCHANGED choice
  BY DEF CancelKeyboard, Resting, WifiInv, KeyboardAbove
<1>2. ChoiceOK'
  BY <1>1, SameChoice DEF choice, ChoiceOK
<1> QED
  BY <1>1, <1>2, SameChoice, PromptKeeps DEF KeyboardAbove

LEMMA ContinueKeeps ==
  ASSUME WifiInv, Continue
  PROVE  WifiInv'
<1>1. ~keyboard /\ UNCHANGED <<attempted, networks, store>>
  BY DEF Continue
<1>2. /\ selected \in Ssids \cup {NoSsid} /\ password \in Passwords
      /\ requires \in BOOLEAN /\ usedSaved \in BOOLEAN /\ auto \in BOOLEAN
  BY SameChoice DEF ChoiceOK
<1>3. CASE /\ screen = "HIDDEN_SSID_ENTRY" /\ selected \in Saved
           /\ Choose(selected, creds[selected], requires, TRUE)
           /\ Attempt(auto, selected, creds[selected], requires)
           /\ UNCHANGED keyboard
  <2>1. creds[selected] \in Passwords
    BY <1>3, SameChoice DEF Saved
  <2> QED
    BY <1>1, <1>2, <1>3, <2>1, AttemptKeeps DEF Choose
<1>4. CASE screen = "HIDDEN_SSID_ENTRY" /\ AskPassword /\ UNCHANGED choice
  <2>1. /\ screen' \in Resting /\ KeyboardAbove' /\ keyboard' \in BOOLEAN
        /\ auto' \in BOOLEAN /\ link' \in Links /\ ChoiceOK'
    BY <1>2, <1>4, SameChoice
    DEF AskPassword, Resting, KeyboardAbove, choice, ChoiceOK
  <2> QED
    BY <1>1, <1>4, <2>1, PromptKeeps
<1>5. CASE /\ screen = "PASSWORD_ENTRY"
           /\ Attempt(auto, selected, password, requires)
           /\ UNCHANGED <<keyboard, choice>>
  BY <1>1, <1>2, <1>5, AttemptKeeps DEF choice
<1> QED
  BY <1>3, <1>4, <1>5 DEF Continue

(***************************************************************************)
(* The store.                                                              *)
(***************************************************************************)
LEMMA AddedIsAStore ==
  ASSUME WifiTypeOK, NEW s \in Ssids \cup {NoSsid}, NEW p \in Passwords,
         AddCredential(s, p)
  PROVE  creds' \in [Ssids -> Passwords]
BY DEF AddCredential, WifiTypeOK

LEMMA RemovedIsAStore ==
  ASSUME WifiTypeOK, NEW s, RemoveCredential(s)
  PROVE  creds' \in [Ssids -> Passwords] /\ lastConnected' \in Ssids \cup {NoSsid}
BY DEF RemoveCredential, WifiTypeOK, Passwords

LEMMA SavePromptKeeps ==
  ASSUME WifiInv, NEW yes \in BOOLEAN, SavePrompt(yes)
  PROVE  WifiInv'
<1>1. /\ screen = "SAVE_PROMPT" /\ screen' = "CONNECTED"
      /\ UNCHANGED <<keyboard, auto, attempted, choice, networks,
                     lastConnected, link>>
      /\ (AddCredential(selected, password) \/ UNCHANGED creds)
  BY DEF SavePrompt
<1>2. creds' \in [Ssids -> Passwords]
  BY <1>1, AddedIsAStore DEF WifiInv, WifiTypeOK
<1>3. WifiTypeOK'
  BY <1>1, <1>2 DEF WifiInv, WifiTypeOK, choice, Screens
<1>4. ReportsItsNetwork'
  BY <1>1 DEF WifiInv, ReportsItsNetwork, choice
<1> QED
  BY <1>1, <1>3, <1>4 DEF WifiInv, KeyboardAbove, ClosedIsEmpty,
     AttemptIsSelected, Connecting, ListIsCurrent

LEMMA ForgetPromptKeeps ==
  ASSUME WifiInv, NEW yes \in BOOLEAN, ForgetPrompt(yes)
  PROVE  WifiInv'
<1>1. /\ ScanAgain(FALSE) /\ UNCHANGED <<keyboard, attempted, choice>>
      /\ ~keyboard /\ (RemoveCredential(selected) \/ UNCHANGED store)
  BY DEF ForgetPrompt, Rescan, WifiInv, KeyboardAbove
<1>2. creds' \in [Ssids -> Passwords] /\ lastConnected' \in Ssids \cup {NoSsid}
  BY <1>1, RemovedIsAStore DEF WifiInv, WifiTypeOK, store
<1> QED
  BY <1>1, <1>2, ScanKeeps DEF WifiInv

LEMMA LeaveErrorKeeps ==
  ASSUME WifiInv, LeaveError
  PROVE  WifiInv'
<1>1. /\ screen = "CONNECTION_FAILED" /\ screen' \in Resting
      /\ ~keyboard /\ UNCHANGED keyboard /\ auto' = FALSE
      /\ UNCHANGED <<attempted, networks, store>>
      /\ UNCHANGED choice /\ UNCHANGED link
  BY DEF LeaveError, Resting, WifiInv, KeyboardAbove
<1>2. ChoiceOK'
  BY <1>1, SameChoice DEF choice, ChoiceOK
<1> QED
  BY <1>1, <1>2, SameChoice, PromptKeeps DEF KeyboardAbove

LEMMA AskForgetKeeps ==
  ASSUME WifiInv, NEW s \in Ssids, AskForget(s)
  PROVE  WifiInv'
<1>1. /\ screen = "NETWORK_LIST" /\ screen' \in Resting
      /\ ~keyboard /\ UNCHANGED keyboard /\ UNCHANGED auto
      /\ UNCHANGED <<attempted, networks, store>> /\ UNCHANGED link
  BY DEF AskForget, Resting, WifiInv, KeyboardAbove
<1>2. ChoiceOK'
  BY SameChoice DEF AskForget, ChoiceOK
<1> QED
  BY <1>1, <1>2, SameChoice, PromptKeeps DEF KeyboardAbove

LEMMA ScanFromListKeeps ==
  ASSUME WifiInv, ScanFromList
  PROVE  WifiInv'
BY ScanKeeps
DEF ScanFromList, Staying, WifiInv, WifiTypeOK, KeyboardAbove, store

(***************************************************************************)
(* The driver, and the ways in and out of the screen.                      *)
(***************************************************************************)
LEMMA LinkGoesKeeps ==
  ASSUME WifiInv,
         NEW status \in {"idle", "connected", "failed", "noSsid", "lost"},
         status # "idle", LinkGoes(status),
         Connecting /\ status = "connected" => Accepts(selected, password)
  PROVE  WifiInv'
<1>0. link \in Links /\ link' = WithStatus(link, status)
  BY DEF LinkGoes, WithStatus, WifiInv, WifiTypeOK
<1>a. link' \in Links /\ link'.ssid = link.ssid /\ link'.status = status
  BY <1>0, LinkWithStatus
<1>1. /\ link' \in Links /\ link'.ssid = link.ssid /\ link'.status = status
      /\ UNCHANGED <<screen, keyboard, auto, attempted, networks>>
      /\ UNCHANGED choice /\ UNCHANGED store
  BY <1>a DEF LinkGoes
<1>2. WifiTypeOK'
  BY <1>1 DEF WifiInv, WifiTypeOK, choice, store, Screens
<1>3. AttemptIsSelected'
  BY <1>1 DEF WifiInv, AttemptIsSelected, Connecting, choice, Accepts
<1>4. ReportsItsNetwork'
  BY <1>1 DEF WifiInv, ReportsItsNetwork, choice, store, Accepts
<1>5. ListIsCurrent'
  BY <1>1, SameStore DEF WifiInv, ListIsCurrent
<1> QED
  BY <1>1, <1>2, <1>3, <1>4, <1>5
  DEF WifiInv, KeyboardAbove, ClosedIsEmpty

LEMMA DriverKeeps ==
  ASSUME WifiInv, Driver
  PROVE  WifiInv'
<1>1. CASE Associates
  <2>1. link.status = "idle" /\ Accepts(link.ssid, link.key) /\ LinkGoes("connected")
    BY <1>1 DEF Associates
  <2>2. Connecting => Accepts(selected, password)
    BY <2>1 DEF WifiInv, AttemptIsSelected, KeyFor, Accepts
  <2> QED
    BY <2>1, <2>2, LinkGoesKeeps
<1>2. CASE IsRefused \/ IsLost
  BY <1>2, LinkGoesKeeps DEF IsRefused, IsLost
<1> QED
  BY <1>1, <1>2 DEF Driver

LEMMA OpenWifiKeeps ==
  ASSUME WifiInv, NEW allowAuto \in BOOLEAN, OpenWifi(allowAuto)
  PROVE  WifiInv'
<1>1. screen = "closed" /\ keyboard' = FALSE /\ ~keyboard
      /\ UNCHANGED keyboard /\ UNCHANGED store
  BY DEF OpenWifi, Opened, WifiInv, WifiTypeOK, KeyboardAbove
<1>2. CASE networks' = NoList /\ TryCredential(lastConnected)
  <2>1. /\ screen' = "AUTO_CONNECTING" /\ auto' \in BOOLEAN
        /\ attempted' \subseteq Ssids /\ ChoiceOK'
        /\ link' \in Links /\ AttemptIsSelected'
    BY <1>2, CredentialTried DEF WifiInv
  <2>2. /\ networks' \in Lists /\ networks'.marked = {} /\ networks'.real = {}
    BY <1>2, ScannedEmpty
  <2>3. WifiTypeOK'
    BY <1>1, <2>1, <2>2 DEF WifiTypeOK, WifiInv, ChoiceOK, store, Screens
  <2> QED
    BY <1>1, <2>1, <2>2, <2>3, ConnectingKeeps DEF ListIsCurrent
<1>3. CASE /\ ScanAgain(allowAuto /\ Saved # {})
           /\ UNCHANGED <<attempted, choice>>
  BY <1>1, <1>3, ScanKeeps DEF WifiInv, WifiTypeOK, store
<1> QED
  BY <1>2, <1>3 DEF OpenWifi

LEMMA CompleteKeeps ==
  ASSUME WifiInv, NEW success \in BOOLEAN, Complete(success)
  PROVE  WifiInv' /\ screen' = "closed"
<1>1. /\ screen' = "closed" /\ keyboard' = FALSE /\ auto' = FALSE
      /\ attempted' = {} /\ networks' = NoList /\ ChoiceOK'
      /\ UNCHANGED store /\ UNCHANGED link
  BY DEF Complete, WifiClosed, Choose, ChoiceOK, Passwords
<1>2. networks' \in Lists /\ networks'.marked = {} /\ networks'.real = {}
  BY <1>1, ScannedEmpty
<1>3. WifiTypeOK'
  BY <1>1, <1>2 DEF WifiTypeOK, WifiInv, ChoiceOK, store, Screens
<1> QED
  BY <1>1, <1>2, <1>3 DEF WifiInv, KeyboardAbove, ClosedIsEmpty,
     AttemptIsSelected, Connecting, ReportsItsNetwork, ListIsCurrent

\* With the screen closed the store and the link may change under it.
LEMMA ClosedKeeps ==
  ASSUME WifiInv, screen = "closed",
         UNCHANGED <<screen, keyboard, auto, attempted, choice, networks>>,
         creds' \in [Ssids -> Passwords],
         lastConnected' \in Ssids \cup {NoSsid}, link' \in Links
  PROVE  WifiInv'
<1>1. WifiTypeOK'
  BY DEF WifiTypeOK, WifiInv, choice, Screens
<1>2. networks'.marked = {} /\ networks'.real = {}
  BY ScannedEmpty DEF WifiInv, ClosedIsEmpty
<1> QED
  BY <1>1, <1>2 DEF WifiInv, KeyboardAbove, ClosedIsEmpty,
     AttemptIsSelected, Connecting, ReportsItsNetwork, ListIsCurrent

LEMMA WebCredentialKeeps ==
  ASSUME WifiInv, NEW s \in Ssids, NEW p \in Passwords, WebCredential(s, p)
  PROVE  WifiInv' /\ screen' = screen
<1>1. /\ screen = "closed" /\ link' \in Links
      /\ UNCHANGED <<screen, keyboard, auto, attempted, choice, networks>>
  BY SameChoice DEF WebCredential
<1>2. creds' \in [Ssids -> Passwords] /\ lastConnected' \in Ssids \cup {NoSsid}
  BY AddedIsAStore, RemovedIsAStore, SameChoice DEF WebCredential, WifiInv
<1> QED
  BY <1>1, <1>2, ClosedKeeps

LEMMA WifiStays ==
  ASSUME WifiInv, UNCHANGED wifiVars
  PROVE  WifiInv'
BY DEF WifiInv, wifiVars, choice, store, WifiTypeOK, KeyboardAbove, ClosedIsEmpty,
   AttemptIsSelected, Connecting, KeyFor, Accepts, ReportsItsNetwork,
   ListIsCurrent, Saved

LEMMA WifiStepKeeps ==
  ASSUME WifiInv, WifiStep
  PROVE  WifiInv'
<1>1. CASE Loops
  BY <1>1, ScanDoneKeeps, ScanFailedKeeps, LinkUpKeeps, RefusedKeeps,
     ContinueKeeps DEF Loops
<1>2. CASE User
  BY <1>2, SelectNetworkKeeps, AskForgetKeeps, PromptHiddenSsidKeeps,
     CancelKeyboardKeeps, TypeSsidKeeps, TypePasswordKeeps, SavePromptKeeps,
     ForgetPromptKeeps, LeaveErrorKeeps, ScanFromListKeeps DEF User
<1> QED
  BY <1>1, <1>2, DriverKeeps DEF WifiStep

\* Only the driver works while no screen is open.
LEMMA ClosedStaysClosed ==
  ASSUME WifiInv, screen = "closed", WifiStep
  PROVE  screen' = "closed"
<1>1. ~Loops
  BY DEF Loops, ScanDone, ScanFailed, LinkUp, Refused, TimedOut, Continue, Connecting
<1>2. ~User
  BY DEF User, SelectNetwork, AskForget, PromptHiddenSsid, CancelKeyboard,
     TypeSsid, TypePassword, SavePrompt, ForgetPrompt, LeaveError,
     ScanFromList, WifiInv, KeyboardAbove
<1> QED
  BY <1>1, <1>2 DEF WifiStep, Driver, Associates, IsRefused, IsLost, LinkGoes

-----------------------------------------------------------------------------
(* The sync. *)

(***************************************************************************)
(* Until a position is accepted the saved one is the reader's.             *)
(***************************************************************************)
SavedIsKept ==
    sync # "closed" => saved = local \/ (sync = "returning" /\ saved = remote)

(***************************************************************************)
(* What smart sync knows of the primary record when it decides: it is as   *)
(* received while nobody wrote it, whatever is kept is at least as far,    *)
(* and an upload goes ahead only of what was received.                     *)
(***************************************************************************)
Pending == sync \in {"probing", "deciding", "SHOWING_RESULT",
                     "NO_REMOTE_PROGRESS", "UPLOADING"}
Heard == answer # Unheard
AnswerStands == Pending /\ Heard /\ ~disturbed => server["primary"] = answer
KeptIsFurther ==
    sync \in {"probing", "deciding"} /\ Heard =>
        \/ result = "NOT_FOUND" /\ answer = Nothing
        \/ result = "OK" /\ remote >= answer
UploadIsAhead == sync = "UPLOADING" /\ smart /\ Heard => local >= answer
AskedIsNotSmart == sync \in {"SHOWING_RESULT", "NO_REMOTE_PROGRESS"} => ~smart

SyncInv ==
    /\ SyncTypeOK /\ SavedIsKept /\ AnswerStands /\ KeptIsFurther
    /\ UploadIsAhead /\ AskedIsNotSmart

LEMMA SyncStays ==
  ASSUME SyncInv, UNCHANGED syncVars
  PROVE  SyncInv'
BY DEF SyncInv, syncVars, SyncTypeOK, SavedIsKept, AnswerStands, KeptIsFurther,
   UploadIsAhead, AskedIsNotSmart, Pending, Heard

LEMMA SyncInitial ==
  ASSUME SyncInit
  PROVE  SyncInv
<1>1. server \in [Ids -> Positions \cup {Nothing}]
  BY DEF SyncInit, NoRecords
<1>2. local \in Positions /\ saved \in Positions /\ remote \in Positions
  BY PositionAssumption DEF SyncInit, Positions
<1>3. SyncTypeOK
  BY <1>1, <1>2 DEF SyncInit, SyncTypeOK, SyncStates
<1> QED
  BY <1>3 DEF SyncInit, SyncInv, SavedIsKept, AnswerStands, KeptIsFurther,
     UploadIsAhead, AskedIsNotSmart, Pending

\* With nothing pending there is nothing to relate.
LEMMA IdleKeeps ==
  ASSUME SyncTypeOK', SavedIsKept', ~Pending'
  PROVE  SyncInv'
BY DEF SyncInv, AnswerStands, KeptIsFurther, UploadIsAhead, AskedIsNotSmart, Pending

LEMMA TurnToKeeps ==
  ASSUME SyncInv, NEW p \in Positions, TurnTo(p)
  PROVE  SyncInv'
BY IdleKeeps DEF TurnTo, SyncInv, SyncTypeOK, SavedIsKept, Pending, Record, History

LEMMA LaunchSyncKeeps ==
  ASSUME SyncInv, NEW ok \in BOOLEAN, LaunchSync(ok)
  PROVE  SyncInv'
BY IdleKeeps DEF LaunchSync, SaveChecked, SyncInv, SyncTypeOK, SavedIsKept, Pending,
   Record, History, SyncStates

LEMMA StartSyncKeeps ==
  ASSUME SyncInv, sync \in {"entering", "connecting"}, NEW hashed \in BOOLEAN,
         StartSync(hashed), wifiActivated' \in BOOLEAN
  PROVE  SyncInv'
<1>1. /\ sync' \in {"fetching", "SYNC_FAILED"} /\ document' \in Ids \cup {"none"}
      /\ result' = "error" /\ remote' = 0
      /\ answer' = Unheard /\ disturbed' = FALSE /\ smart' \in BOOLEAN
      /\ UNCHANGED <<local, saved>>
  BY DEF StartSync, Ids
<1>2. server' \in [Ids -> Positions \cup {Nothing}]
  BY DEF StartSync
<1>3. remote' \in Positions
  BY <1>1, PositionAssumption DEF Positions
<1>4. SyncTypeOK'
  BY <1>1, <1>2, <1>3 DEF SyncInv, SyncTypeOK, SyncStates
<1> QED
  BY <1>1, <1>4, IdleKeeps DEF SyncInv, SavedIsKept, Pending

\* An answer is a position, and at least as far as the record it is of.
LEMMA AnswerOf ==
  ASSUME SyncTypeOK, NEW id \in Ids, NEW a \in Answers(id)
  PROVE  /\ a.result \in {"OK", "NOT_FOUND"} /\ a.at \in Positions
         /\ server[id] \in Positions \cup {Nothing}
         /\ a.result = "NOT_FOUND" => server[id] = Nothing
         /\ a.at >= server[id]
<1>1. server[id] \in Positions \cup {Nothing}
  BY DEF SyncTypeOK
<1>2. CASE server[id] # Nothing
  BY <1>1, <1>2 DEF Answers, Positions
<1>3. CASE server[id] = Nothing
  <2>1. \/ a = [result |-> "NOT_FOUND", at |-> 0]
        \/ a = [result |-> "OK", at |-> 0]
    BY <1>3 DEF Answers
  <2> QED
    BY <1>3, <2>1, PositionAssumption DEF Positions, Nothing
<1> QED
  BY <1>2, <1>3

LEMMA FetchKeeps ==
  ASSUME SyncInv, NEW arrives \in BOOLEAN, Fetch(arrives)
  PROVE  SyncInv'
<1>1. /\ sync = "fetching" /\ sync' \in {"probing", "deciding"}
      /\ UNCHANGED <<local, saved, smart, server, wifiActivated, document>>
      /\ disturbed' = FALSE
      /\ answer' = IF arrives THEN server["primary"] ELSE Unheard
  BY DEF Fetch, SyncGoes, Quiet, Device
<1>2. server["primary"] \in Positions \cup {Nothing}
  BY DEF SyncInv, SyncTypeOK, Ids
<1>3. /\ result' \in {"OK", "NOT_FOUND", "error"} /\ remote' \in Positions
      /\ arrives => \/ result' = "NOT_FOUND" /\ answer' = Nothing
                    \/ result' = "OK" /\ remote' >= answer'
  <2>1. CASE arrives
    <3>1. PICK a \in Answers("primary") : result' = a.result /\ remote' = a.at
      BY <2>1 DEF Fetch
    <3>2. /\ a.result \in {"OK", "NOT_FOUND"} /\ a.at \in Positions
          /\ a.result = "NOT_FOUND" => server["primary"] = Nothing
          /\ a.at >= server["primary"]
      BY AnswerOf DEF SyncInv, Ids
    <3> QED
      BY <1>1, <2>1, <3>1, <3>2
  <2>2. CASE ~arrives
    BY <2>2, PositionAssumption DEF Fetch, Failure, Positions
  <2> QED
    BY <2>1, <2>2
<1>4. SyncTypeOK'
  BY <1>1, <1>2, <1>3 DEF SyncInv, SyncTypeOK, SyncStates
<1>5. KeptIsFurther'
  BY <1>1, <1>3 DEF KeptIsFurther, Heard
<1> QED
  BY <1>1, <1>4, <1>5 DEF SyncInv, SavedIsKept, AnswerStands, UploadIsAhead,
     AskedIsNotSmart, Heard

LEMMA ProbeKeeps ==
  ASSUME SyncInv, NEW arrives \in BOOLEAN, Probe(arrives)
  PROVE  SyncInv'
<1>1. /\ sync = "probing" /\ sync' = "deciding"
      /\ UNCHANGED <<local, saved, smart, server, wifiActivated, answer, disturbed>>
  BY DEF Probe, SyncGoes, Quiet, Device, History
<1>2. /\ remote \in Positions /\ answer \in Positions \cup {Nothing, Unheard}
      /\ result \in {"OK", "NOT_FOUND", "error"} /\ document \in Ids \cup {"none"}
  BY DEF SyncInv, SyncTypeOK
<1>3. PICK a \in IF arrives THEN Answers("alternate") ELSE {Failure} :
          IF Further(a)
          THEN document' = "alternate" /\ remote' = a.at /\ result' = "OK"
          ELSE UNCHANGED Record
  BY DEF Probe
<1>4. a.at \in Positions
  <2>1. CASE arrives
    BY <1>3, <2>1, AnswerOf DEF SyncInv, Ids
  <2>2. CASE ~arrives
    BY <1>3, <2>2, PositionAssumption DEF Failure, Positions
  <2> QED
    BY <2>1, <2>2
<1>5. /\ result' \in {"OK", "NOT_FOUND", "error"} /\ remote' \in Positions
      /\ document' \in Ids \cup {"none"}
  BY <1>2, <1>3, <1>4 DEF Record, Ids
<1>6. KeptIsFurther'
  <2>1. CASE Further(a) /\ Heard
    <3>1. remote' = a.at /\ result' = "OK" /\ (result = "NOT_FOUND" \/ a.at > remote)
      BY <1>3, <2>1 DEF Further
    <3>2. \/ result = "NOT_FOUND" /\ answer = Nothing
          \/ result = "OK" /\ remote >= answer
      BY <1>1, <2>1 DEF SyncInv, KeptIsFurther
    <3>3. remote' >= answer
      BY <1>2, <1>4, <3>1, <3>2 DEF Positions, Nothing, Unheard
    <3> QED
      BY <1>1, <3>1, <3>3 DEF KeptIsFurther
  <2>2. CASE ~Further(a)
    BY <1>1, <1>3, <2>2 DEF SyncInv, KeptIsFurther, Heard, Record
  <2>3. CASE ~Heard
    BY <1>1, <2>3 DEF KeptIsFurther, Heard
  <2> QED
    BY <2>1, <2>2, <2>3
<1>7. SyncTypeOK'
  BY <1>1, <1>5 DEF SyncInv, SyncTypeOK, SyncStates
<1> QED
  BY <1>1, <1>6, <1>7 DEF SyncInv, SavedIsKept, AnswerStands, UploadIsAhead,
     AskedIsNotSmart, Heard, Pending


\* A decision leaves everything but the state and the identifier.
LEMMA MovesOn ==
  ASSUME SyncInv, Pending, sync' \in SyncStates,
         sync' \notin {"closed", "probing", "deciding"},
         document' \in Ids \cup {"none"},
         UNCHANGED <<local, saved, smart, result, remote, server,
                     wifiActivated, answer, disturbed>>,
         UploadIsAhead', AskedIsNotSmart'
  PROVE  SyncInv'
<1>1. SyncTypeOK'
  BY DEF SyncInv, SyncTypeOK
<1>2. SavedIsKept'
  BY DEF SyncInv, SavedIsKept, Pending
<1> QED
  BY <1>1, <1>2 DEF SyncInv, AnswerStands, KeptIsFurther, Heard

\* What is uploaded is ahead of what was received.
LEMMA DecidedUpload ==
  ASSUME SyncInv, sync = "deciding", Heard,
         result = "NOT_FOUND" \/ (result = "OK" /\ local > remote)
  PROVE  local >= answer
<1>1. /\ local \in Positions /\ remote \in Positions
      /\ answer \in Positions \cup {Nothing, Unheard}
  BY DEF SyncInv, SyncTypeOK
<1>2. \/ result = "NOT_FOUND" /\ answer = Nothing
      \/ result = "OK" /\ remote >= answer
  BY DEF SyncInv, KeptIsFurther
<1> QED
  BY <1>1, <1>2 DEF Positions, Nothing, Unheard

LEMMA DecideKeeps ==
  ASSUME SyncInv,
         NothingStored \/ SyncFails \/ Agrees \/ UploadsLocal \/ AsksReader
  PROVE  SyncInv'
<1>1. /\ sync = "deciding" /\ Pending
      /\ UNCHANGED <<local, saved, smart, result, remote, server,
                     wifiActivated, answer, disturbed>>
      /\ sync' \in {"UPLOADING", "NO_REMOTE_PROGRESS", "SYNC_FAILED",
                    "SYNC_COMPLETE", "SHOWING_RESULT"}
      /\ sync' \in {"SHOWING_RESULT", "NO_REMOTE_PROGRESS"} => ~smart
      /\ sync' = "UPLOADING" =>
             result = "NOT_FOUND" \/ (result = "OK" /\ local > remote)
  BY DEF NothingStored, SyncFails, Agrees, UploadsLocal, AsksReader, Decides,
     SyncGoes, Quiet, Device, Record, History, Pending
<1>2. document' \in Ids \cup {"none"}
  BY DEF NothingStored, SyncFails, Agrees, UploadsLocal, AsksReader, Record,
     SyncInv, SyncTypeOK, Ids
<1>3. UploadIsAhead'
  BY <1>1, DecidedUpload DEF UploadIsAhead, Heard
<1>4. AskedIsNotSmart' /\ sync' \in SyncStates
  BY <1>1 DEF AskedIsNotSmart, SyncStates
<1> QED
  BY <1>1, <1>2, <1>3, <1>4, MovesOn

LEMMA ChooseUploadKeeps ==
  ASSUME SyncInv, ChooseUpload
  PROVE  SyncInv'
<1>1. /\ Pending /\ ~smart /\ sync' = "UPLOADING"
      /\ UNCHANGED <<local, saved, smart, result, remote, server,
                     wifiActivated, answer, disturbed, document>>
  BY DEF ChooseUpload, Pending, SyncInv, AskedIsNotSmart, Quiet, Device, Record, History
<1> QED
  BY <1>1, MovesOn DEF UploadIsAhead, AskedIsNotSmart, SyncStates, SyncInv, SyncTypeOK

LEMMA ApplyKeeps ==
  ASSUME SyncInv, sync \in {"deciding", "SHOWING_RESULT"}, NEW ok \in BOOLEAN,
         Apply(ok)
  PROVE  SyncInv'
<1>1. SyncTypeOK'
  BY DEF Apply, SyncInv, SyncTypeOK, Record, History, SyncStates
<1> QED
  BY <1>1, IdleKeeps DEF Apply, SyncInv, SavedIsKept, Pending, Record

LEMMA ReturnKeeps ==
  ASSUME SyncInv, ReturnToReader
  PROVE  SyncInv'
<1>1. SyncTypeOK'
  BY DEF ReturnToReader, Quiet, Device, SyncInv, SyncTypeOK, Record, History, SyncStates
<1> QED
  BY <1>1, IdleKeeps DEF ReturnToReader, Quiet, Device, SyncInv, SavedIsKept, Pending

LEMMA UploadKeeps ==
  ASSUME SyncInv, NEW stored \in BOOLEAN, NEW arrives \in BOOLEAN,
         Upload(stored, arrives)
  PROVE  SyncInv'
<1>1. server' \in [Ids -> Positions \cup {Nothing}]
  BY DEF Upload, SyncInv, SyncTypeOK
<1>2. SyncTypeOK'
  BY <1>1 DEF Upload, SyncGoes, Device, SyncInv, SyncTypeOK, Record, History, SyncStates
<1> QED
  BY <1>2, IdleKeeps DEF Upload, SyncGoes, Device, SyncInv, SavedIsKept, Pending

LEMMA ReopenedKeeps ==
  ASSUME SyncInv, Reopened
  PROVE  SyncInv'
<1>1. server' \in [Ids -> Positions \cup {Nothing}]
  BY DEF Reopened, NoRecords
<1>2. remote' \in Positions
  BY PositionAssumption DEF Reopened, Positions
<1>3. SyncTypeOK'
  BY <1>1, <1>2 DEF Reopened, SyncInv, SyncTypeOK, SyncStates
<1> QED
  BY <1>3, IdleKeeps DEF Reopened, SavedIsKept, Pending

LEMMA OtherDeviceKeeps ==
  ASSUME SyncInv, NEW id \in Ids, NEW p \in Positions, OtherDevice(id, p)
  PROVE  SyncInv'
<1>1. /\ server' = [server EXCEPT ![id] = p]
      /\ disturbed' = (disturbed \/ (answer # Unheard /\ id = "primary"))
      /\ UNCHANGED <<local, saved, smart, sync, document, result, remote,
                     wifiActivated, answer>>
  BY DEF OtherDevice, Device, Record
<1>2. server' \in [Ids -> Positions \cup {Nothing}]
  BY <1>1 DEF SyncInv, SyncTypeOK
<1>3. disturbed' \in BOOLEAN
  BY <1>1 DEF SyncInv, SyncTypeOK
<1>4. SyncTypeOK'
  BY <1>1, <1>2, <1>3 DEF SyncInv, SyncTypeOK
<1>5. id # "primary" => server'["primary"] = server["primary"]
  BY <1>1 DEF SyncInv, SyncTypeOK, Ids
<1>6. AnswerStands'
  BY <1>1, <1>5 DEF SyncInv, AnswerStands, Heard, Pending
<1> QED
  BY <1>1, <1>4, <1>6 DEF SyncInv, SavedIsKept, KeptIsFurther, UploadIsAhead,
     AskedIsNotSmart, Heard

-----------------------------------------------------------------------------
(* The session. *)

\* Only Settings and a sync that connects have the Wi-Fi screen open.
NoWifiScreen == sync \notin {"closed", "connecting"} => screen = "closed"

SessionInv == WifiInv /\ SyncInv /\ NoWifiScreen

LEMMA SessionInitial ==
  ASSUME SessionInit
  PROVE  SessionInv
<1>1. networks \in Lists /\ networks.marked = {} /\ networks.real = {}
  BY ScannedEmpty DEF SessionInit, WifiInit
<1>2. WifiTypeOK
  BY <1>1, NoLinkIsALink DEF SessionInit, WifiInit, WifiTypeOK, Screens, Passwords
<1>3. WifiInv
  BY <1>1, <1>2 DEF SessionInit, WifiInit, WifiInv, KeyboardAbove, ClosedIsEmpty,
     AttemptIsSelected, Connecting, ReportsItsNetwork, ListIsCurrent
<1> QED
  BY <1>3, SyncInitial DEF SessionInit, SessionInv, SyncInit, NoWifiScreen

LEMMA SettingsKeeps ==
  ASSUME SessionInv, SettingsOpens \/ \E success \in BOOLEAN : SettingsResult(success)
  PROVE  SessionInv'
<1>1. sync = "closed" /\ sync' = "closed" /\ WifiInv'
  BY OpenWifiKeeps, CompleteKeeps
  DEF SessionInv, SettingsOpens, SettingsResult, WifiOnly, syncVars
<1>2. CASE SettingsOpens
  <2>1. local' \in Positions /\ saved' \in Positions
    BY <1>2, PositionAssumption DEF SettingsOpens, Positions
  <2>2. SyncTypeOK'
    BY <1>2, <2>1
    DEF SettingsOpens, SessionInv, SyncInv, SyncTypeOK, Record, History
  <2> QED
    BY <1>1, <2>2, IdleKeeps DEF SessionInv, SavedIsKept, Pending, NoWifiScreen
<1> QED
  BY <1>1, <1>2, SyncStays
  DEF SettingsResult, WifiOnly, SessionInv, NoWifiScreen

LEMMA EnterKeeps ==
  ASSUME SessionInv, Enter
  PROVE  SessionInv'
<1>1. CASE (\E hashed \in BOOLEAN : StartSync(hashed)) /\ SyncOnly
  <2>1. sync' # "connecting" /\ screen = "closed" /\ screen' = screen
    BY <1>1 DEF Enter, StartSync, SyncOnly, wifiVars, SessionInv, NoWifiScreen
  <2> QED
    BY <1>1, <2>1, StartSyncKeeps, WifiStays
    DEF Enter, SyncOnly, SessionInv, NoWifiScreen
<1>2. CASE /\ sync' = "connecting" /\ OpenWifi(TRUE)
           /\ UNCHANGED <<Device, Record, server, History>>
  <2>1. SyncTypeOK'
    BY <1>2
    DEF Enter, SessionInv, SyncInv, SyncTypeOK, SyncStates, Device, Record, History
  <2>2. SyncInv'
    BY <1>2, <2>1, IdleKeeps
    DEF Enter, SessionInv, SyncInv, SavedIsKept, Pending, Device
  <2> QED
    BY <1>2, <2>2, OpenWifiKeeps DEF SessionInv, NoWifiScreen
<1> QED
  BY <1>1, <1>2 DEF Enter

LEMMA WifiResultKeeps ==
  ASSUME SessionInv, NEW success \in BOOLEAN, WifiResult(success)
  PROVE  SessionInv'
<1>1. WifiInv' /\ screen' = "closed" /\ sync = "connecting"
  BY CompleteKeeps DEF WifiResult, SessionInv
<1>2. CASE (\E hashed \in BOOLEAN : StartSync(hashed)) /\ UNCHANGED wifiActivated
  BY <1>1, <1>2, StartSyncKeeps DEF SessionInv, SyncInv, SyncTypeOK, NoWifiScreen
<1>3. CASE /\ sync' = "returning"
           /\ UNCHANGED <<Device, Record, server, wifiActivated, History>>
  <2>1. SyncTypeOK'
    BY <1>3
    DEF SessionInv, SyncInv, SyncTypeOK, SyncStates, Device, Record, History
  <2> QED
    BY <1>1, <1>3, <2>1, IdleKeeps
    DEF SessionInv, SyncInv, SavedIsKept, Pending, Device, NoWifiScreen
<1> QED
  BY <1>2, <1>3 DEF WifiResult

\* What a sync does while the Wi-Fi screen is closed, the radio being stopped
\* or left alone.
LEMMA ClosedScreenKeeps ==
  ASSUME SessionInv, screen = "closed", SyncInv',
         \/ SyncOnly
         \/ link' = Off /\ NoScreen /\ UNCHANGED store
  PROVE  SessionInv'
<1>1. CASE SyncOnly
  BY <1>1, WifiStays DEF SyncOnly, wifiVars, SessionInv, NoWifiScreen
<1>2. CASE link' = Off /\ NoScreen /\ UNCHANGED store
  <2>1. /\ UNCHANGED <<screen, keyboard, auto, attempted, choice, networks>>
        /\ creds' \in [Ssids -> Passwords]
        /\ lastConnected' \in Ssids \cup {NoSsid} /\ link' \in Links
    BY <1>2, NoLinkIsALink DEF NoScreen, store, SessionInv, WifiInv, WifiTypeOK
  <2> QED
    BY <2>1, ClosedKeeps DEF SessionInv, NoWifiScreen
<1> QED
  BY <1>1, <1>2

LEMMA RequestsKeep ==
  ASSUME SessionInv, Requests
  PROVE  SessionInv'
<1>1. sync \in {"fetching", "probing", "UPLOADING"}
  BY DEF Requests, Fetch, Probe, Upload, SyncGoes
<1>2. screen = "closed"
  BY <1>1 DEF SessionInv, NoWifiScreen
<1>3. SyncInv'
  BY FetchKeeps, ProbeKeeps, UploadKeeps DEF Requests, SessionInv
<1> QED
  BY <1>2, <1>3, ClosedScreenKeeps DEF Requests

LEMMA DecisionsKeep ==
  ASSUME SessionInv, Decisions, SyncOnly
  PROVE  SessionInv'
<1>1. sync \notin {"closed", "connecting"}
  BY DEF Decisions, NothingStored, SyncFails, Agrees, UploadsLocal, AsksReader,
     Decides, SyncGoes, ChooseUpload, ReturnToReader, AppliesRemote, ChooseApply
<1>2. SyncInv'
  BY DecideKeeps, ChooseUploadKeeps, ReturnKeeps, ApplyKeeps
  DEF Decisions, AppliesRemote, ChooseApply, SessionInv
<1> QED
  BY <1>1, <1>2, ClosedScreenKeeps DEF SessionInv, NoWifiScreen

LEMMA RestartKeeps ==
  ASSUME SessionInv, Restart
  PROVE  SessionInv'
<1>1. sync = "returning" /\ SyncInv'
  BY ReopenedKeeps DEF Restart, Reopened, SessionInv
<1> QED
  BY <1>1, ClosedScreenKeeps DEF Restart, SessionInv, NoWifiScreen

LEMMA LaunchKeeps ==
  ASSUME SessionInv, NEW ok \in BOOLEAN, Launch(ok)
  PROVE  SessionInv'
BY LaunchSyncKeeps, ClosedScreenKeeps DEF Launch, SessionInv

LEMMA ElsewhereKeeps ==
  ASSUME SessionInv, Elsewhere, sync = "closed" => screen = "closed", SyncOnly
  PROVE  SessionInv'
<1>1. SyncInv'
  BY TurnToKeeps, OtherDeviceKeeps DEF Elsewhere, SessionInv
<1>2. screen = "closed"
  BY DEF Elsewhere, TurnTo, OtherDevice, SessionInv, NoWifiScreen
<1> QED
  BY <1>1, <1>2, ClosedScreenKeeps

LEMMA WifiSideKeeps ==
  ASSUME SessionInv, WifiStep \/ Credentials, WifiOnly
  PROVE  SessionInv'
<1>1. SyncInv' /\ sync' = sync
  BY SyncStays DEF WifiOnly, syncVars, SessionInv
<1>2. WifiInv'
  BY WifiStepKeeps, WebCredentialKeeps DEF Credentials, SessionInv
<1>3. screen = "closed" => screen' = "closed"
  BY ClosedStaysClosed, WebCredentialKeeps DEF Credentials, SessionInv
<1> QED
  BY <1>1, <1>2, <1>3 DEF SessionInv, NoWifiScreen

LEMMA SessionStep ==
  SessionInv /\ [SessionNext]_sessionVars => SessionInv'
<1> SUFFICES ASSUME SessionInv, [SessionNext]_sessionVars
             PROVE  SessionInv'
  OBVIOUS
<1>1. CASE UNCHANGED sessionVars
  <2>1. UNCHANGED wifiVars /\ UNCHANGED syncVars /\ screen' = screen /\ sync' = sync
    BY <1>1 DEF sessionVars, wifiVars, syncVars
  <2> QED
    BY <2>1, WifiStays, SyncStays DEF SessionInv, NoWifiScreen
<1>2. CASE SessionNext
  BY <1>2, SettingsKeeps, EnterKeeps, WifiResultKeeps, RequestsKeep, RestartKeeps,
     DecisionsKeep, LaunchKeeps, ElsewhereKeeps, WifiSideKeeps DEF SessionNext
<1> QED
  BY <1>1, <1>2

LEMMA SessionAlways == SessionSpec => []SessionInv
BY SessionInitial, SessionStep, PTL DEF SessionSpec

-----------------------------------------------------------------------------
(* What follows. *)

\* Every variable of the Wi-Fi screen and of the sync stays in its set.
THEOREM SessionIsTyped == SessionSpec => []SessionTypeOK
<1>1. SessionInv => SessionTypeOK
  BY DEF SessionInv, WifiInv, SyncInv, SessionTypeOK
<1> QED
  BY <1>1, SessionAlways, PTL

\* The screens that report success name the network the driver is linked to,
\* and the password they offer to save is one it accepted, however many
\* networks were tried, timed out or refused before
\* (WifiSelectionActivity.cpp, checkConnectionStatus()).
THEOREM SuccessIsOfTheSelected == SessionSpec => []ReportsItsNetwork
<1>1. SessionInv => ReportsItsNetwork
  BY DEF SessionInv, WifiInv
<1> QED
  BY <1>1, SessionAlways, PTL

\* The marks of the list agree with the credential store, which prompts and
\* the web page change (WifiSelectionActivity.cpp, processWifiScanResults()).
THEOREM MarksAreCurrent == SessionSpec => []ListMatchesStore
<1>1. SessionInv => ListMatchesStore
  BY DEF SessionInv, WifiInv, ListIsCurrent, ListMatchesStore
<1> QED
  BY <1>1, SessionAlways, PTL

\* A sync leaves the position the reader was at or the one it accepted,
\* whichever request, write or connection fails (KOReaderSyncActivity.cpp,
\* saveProgressAndReturn() and returnToReader()).
THEOREM SyncKeepsThePosition == SessionSpec => []NoPositionIsLost
<1>1. SessionInv => NoPositionIsLost
  BY DEF SessionInv, SyncInv, SavedIsKept, NoPositionIsLost
<1> QED
  BY <1>1, SessionAlways, PTL

\* Only an upload ends the UPLOADING state.
LEMMA OnlyUploadLeaves ==
  ASSUME SessionInv, SessionNext, sync = "UPLOADING", sync' # sync
  PROVE  \E stored, arrives \in BOOLEAN : Upload(stored, arrives)
<1>1. ~SettingsOpens /\ ~Enter /\ ~Restart
  BY DEF SettingsOpens, Enter, Restart, Reopened
<1>2. /\ \A success \in BOOLEAN : ~SettingsResult(success) /\ ~WifiResult(success)
      /\ \A ok \in BOOLEAN : ~Launch(ok)
  BY DEF SettingsResult, WifiResult, Launch, LaunchSync
<1>3. ~Decisions
  BY DEF Decisions, NothingStored, SyncFails, Agrees, UploadsLocal, AsksReader,
     Decides, SyncGoes, ChooseUpload, ReturnToReader, AppliesRemote, ChooseApply
<1>4. ~Elsewhere /\ ~WifiOnly
  BY DEF Elsewhere, TurnTo, OtherDevice, WifiOnly, syncVars
<1>5. Requests
  BY <1>1, <1>2, <1>3, <1>4 DEF SessionNext
<1> QED
  BY <1>5 DEF Requests, Fetch, Probe, SyncGoes

\* The record smart sync received is not taken back to an earlier position
\* while no other device writes it (KOReaderSyncActivity.cpp, performSync()).
THEOREM SmartSyncMovesForward == SessionSpec => SmartNeverRegresses
<1> DEFINE Moves == sync = "UPLOADING" /\ sync' # sync /\ smart /\ answer # Unheard
                        /\ ~disturbed => server'["primary"] >= server["primary"]
<1>1. SessionInv /\ [SessionNext]_sessionVars => [Moves]_syncVars
  <2> SUFFICES ASSUME SessionInv, SessionNext, sync = "UPLOADING", sync' # sync,
                      smart, answer # Unheard, ~disturbed
               PROVE  server'["primary"] >= server["primary"]
    BY DEF sessionVars, syncVars
  <2>1. PICK stored \in BOOLEAN, arrives \in BOOLEAN : Upload(stored, arrives)
    BY OnlyUploadLeaves
  <2>2. server["primary"] = answer /\ local >= answer
    BY DEF SessionInv, SyncInv, AnswerStands, UploadIsAhead, Pending, Heard
  <2>3. /\ local \in Positions /\ server["primary"] \in Positions \cup {Nothing}
        /\ server \in [Ids -> Positions \cup {Nothing}] /\ "primary" \in Ids
    BY DEF SessionInv, SyncInv, SyncTypeOK, Ids
  <2>4. server' = [server EXCEPT ![document] = local] \/ server' = server
    BY <2>1 DEF Upload
  <2>5. server'["primary"] = local \/ server'["primary"] = server["primary"]
    BY <2>3, <2>4
  <2> QED
    BY <2>2, <2>3, <2>5 DEF Positions, Nothing
<1> QED
  BY <1>1, SessionAlways, PTL DEF SessionSpec, SmartNeverRegresses
=============================================================================
