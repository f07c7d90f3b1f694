----------------------------- MODULE SyncSession -----------------------------
(***************************************************************************)
(* WifiSelection and PositionSync as they meet on the device: a sync asks  *)
(* for a connection, or finds the one Settings left behind, and every way  *)
(* out of it ends in the restart that reopens the book.                    *)
(***************************************************************************)
EXTENDS WifiSelection, PositionSync

sessionVars == <<wifiVars, syncVars>>

WifiOnly == UNCHANGED syncVars
SyncOnly == UNCHANGED wifiVars
NoScreen == UNCHANGED <<screen, keyboard, auto, attempted, choice, networks>>

\* Settings opens the screen without automatic connection and, unlike the
\* other owners of it, leaves the radio as it is.  The reader is closed by
\* then, and what is read afterwards may be another book, from its start.
SettingsOpens ==
    /\ sync = "closed" /\ OpenWifi(FALSE)
    /\ local' = 0 /\ saved' = 0
    /\ UNCHANGED <<smart, sync, Record, server, wifiActivated, History>>
SettingsResult(success) ==
    sync = "closed" /\ Complete(success) /\ WifiOnly

\* launchKOReaderSync() replaces the reader, so nothing is open above it.
Launch(ok) == screen = "closed" /\ LaunchSync(ok) /\ SyncOnly

\* onEnter(): an existing connection is used as it is.
Enter ==
    /\ sync = "entering" /\ wifiActivated' = TRUE
    /\ \/ /\ link.status = "connected"
          /\ \E hashed \in BOOLEAN : StartSync(hashed)
          /\ SyncOnly
       \/ /\ link.status # "connected"
          /\ sync' = "connecting" /\ OpenWifi(TRUE)
          /\ UNCHANGED <<Device, Record, server, History>>

\* onWifiSelectionComplete().
WifiResult(success) ==
    /\ sync = "connecting" /\ Complete(success)
    /\ \/ success /\ (\E hashed \in BOOLEAN : StartSync(hashed))
          /\ UNCHANGED wifiActivated
       \/ ~success /\ sync' = "returning"
          /\ UNCHANGED <<Device, Record, server, wifiActivated, History>>

\* A request is answered only over a link; the radio stops after the upload.
NeedsLink(arrives) == arrives => link.status = "connected"
Requests ==
    \/ \E arrives \in BOOLEAN :
          NeedsLink(arrives) /\ (Fetch(arrives) \/ Probe(arrives)) /\ SyncOnly
    \/ \E stored, arrives \in BOOLEAN :
          /\ NeedsLink(stored) /\ Upload(stored, arrives)
          /\ link' = Off /\ NoScreen /\ UNCHANGED store

Decisions ==
    \/ NothingStored \/ SyncFails \/ Agrees \/ UploadsLocal \/ AsksReader
    \/ ChooseUpload \/ ReturnToReader
    \/ \E ok \in BOOLEAN : AppliesRemote(ok) \/ ChooseApply(ok)

\* onExit(): every session that got as far as the radio restarts the device.
Restart ==
    /\ Reopened /\ wifiActivated
    /\ link' = Off /\ NoScreen /\ UNCHANGED store

Credentials ==
    sync = "closed" /\ \E s \in Ssids, p \in Passwords : WebCredential(s, p)

SessionInit == WifiInit /\ SyncInit

SessionNext ==
    \/ SettingsOpens
    \/ \E success \in BOOLEAN : SettingsResult(success) \/ WifiResult(success)
    \/ \E ok \in BOOLEAN : Launch(ok)
    \/ Enter \/ Requests \/ Restart
    \/ Decisions /\ SyncOnly
    \/ Elsewhere /\ (sync = "closed" => screen = "closed") /\ SyncOnly
    \/ WifiStep /\ WifiOnly
    \/ Credentials /\ WifiOnly

\* loop() of whichever screen is open runs; the user may do nothing.
SessionFairness == WF_sessionVars(Loops /\ WifiOnly)

SessionSpec == SessionInit /\ [][SessionNext]_sessionVars /\ SessionFairness

-----------------------------------------------------------------------------
SessionTypeOK == WifiTypeOK /\ SyncTypeOK
=============================================================================
