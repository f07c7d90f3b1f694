---------------------------- MODULE PositionSync ----------------------------
(***************************************************************************)
(* KOReaderSyncActivity: the reading position of one book against a server *)
(* other devices write too.  The reader saves its position, hands over to  *)
(* this screen, and comes back through a restart that clears the heap.     *)
(*                                                                         *)
(* A position is a number, the percentage of the source; positions within  *)
(* SAME_PROGRESS_EPSILON are equal.  The server keeps a record per         *)
(* document identifier: the configured one ("primary") and the one another *)
(* device may use ("alternate").  Each request is a step of its own, and   *)
(* other devices write between any two of them; what they left there       *)
(* before a sync is anything, so the records, and the setting that says    *)
(* how to sync, have their values while it lasts.                          *)
(***************************************************************************)
EXTENDS Integers

CONSTANT LastPosition \* bound: positions are 0..LastPosition

ASSUME PositionAssumption == LastPosition \in Nat

VARIABLES
    local,     \* the reader's position, localProgress.percentage afterwards
    saved,     \* progress.bin
    smart,     \* getSyncBehavior() is SMART
    sync,      \* state, or "closed" while the reader is open
    document,  \* documentHash
    result,    \* of the request for the primary record
    remote,    \* remoteProgress.percentage, 0 until an answer arrives
    server,    \* per identifier a position, or Nothing
    wifiActivated,
    answer,    \* history: the primary record as received, or Unheard
    disturbed  \* history: another device wrote since

syncVars == <<local, saved, smart, sync, document, result, remote, server,
              wifiActivated, answer, disturbed>>

Nothing == -1
Unheard == -2
Positions == 0..LastPosition
Ids == {"primary", "alternate"}
NoRecords == [id \in Ids |-> Nothing]

Device == <<local, saved, smart>>
Record == <<document, result, remote>>
History == <<answer, disturbed>>

SyncGoes(from, to) == sync = from /\ sync' = to

-----------------------------------------------------------------------------
(* The reader. *)

\* Turning pages saves the position now and then; a sync does it first.
TurnTo(p) ==
    /\ sync = "closed" /\ local' = p
    /\ UNCHANGED <<saved, smart, sync, Record, server, wifiActivated,
                   History>>

\* launchKOReaderSync(): without a saved position there is no sync.
SaveIgnored(ok) == sync' = "entering" \* mutant: the result is not looked at
SaveChecked(ok) == ok /\ sync' = "entering"

LaunchSync(ok) ==
    /\ sync = "closed"
    /\ SaveChecked(ok)
    /\ saved' = IF ok THEN local ELSE saved
    /\ UNCHANGED <<local, smart, Record, server, wifiActivated, History>>

-----------------------------------------------------------------------------
(* The requests of performSync(). *)

Quiet == UNCHANGED <<Device, server, wifiActivated>>

\* onWifiSelectionComplete(true), and the identifier that may not be computed.
StartSync(hashed) ==
    /\ sync' = IF hashed THEN "fetching" ELSE "SYNC_FAILED"
    /\ document' = IF hashed THEN "primary" ELSE "none"
    /\ result' = "error" /\ remote' = 0
    /\ answer' = Unheard /\ disturbed' = FALSE
    /\ server' \in [Ids -> Positions \cup {Nothing}]
    /\ smart' \in BOOLEAN
    /\ UNCHANGED <<local, saved>>

\* 404 and 204 say that there is no record, and so does an empty object in
\* a 200, which reads as a record at 0 (169-175).
Answers(id) ==
    IF server[id] # Nothing THEN {[result |-> "OK", at |-> server[id]]}
    ELSE {[result |-> "NOT_FOUND", at |-> 0], [result |-> "OK", at |-> 0]}
NoPercentage == [result |-> "error", at |-> -1] \* mutant: not a percentage
Failure == [result |-> "error", at |-> 0]

\* getProgress() of the primary identifier; it may fail.
Fetch(arrives) ==
    /\ SyncGoes("fetching", IF smart THEN "probing" ELSE "deciding")
    /\ \E a \in IF arrives THEN Answers("primary") ELSE {Failure} :
          result' = a.result /\ remote' = a.at
    /\ answer' = IF arrives THEN server["primary"] ELSE Unheard
    /\ disturbed' = FALSE
    /\ UNCHANGED document /\ Quiet

\* Smart sync probes the alternate identifier and keeps the further record.
AnyAnswer(a) == a.result = "OK" \* mutant: an older record is kept as well
Further(a) == a.result = "OK" /\ (result = "NOT_FOUND" \/ a.at > remote)

Probe(arrives) ==
    /\ SyncGoes("probing", "deciding")
    /\ \E a \in IF arrives THEN Answers("alternate") ELSE {Failure} :
          IF Further(a)
          THEN document' = "alternate" /\ remote' = a.at /\ result' = "OK"
          ELSE UNCHANGED Record
    /\ UNCHANGED History /\ Quiet

Decides(to) == SyncGoes("deciding", to) /\ UNCHANGED History /\ Quiet

NothingStored ==
    /\ result = "NOT_FOUND"
    /\ Decides(IF smart THEN "UPLOADING" ELSE "NO_REMOTE_PROGRESS")
    /\ UNCHANGED Record

\* The request failed, or the book cannot be opened to map the position.
SyncFails ==
    /\ result # "NOT_FOUND"
    /\ Decides("SYNC_FAILED") /\ UNCHANGED Record

\* The three outcomes of smart sync; uploads go to the primary record.
Agrees ==
    /\ result = "OK" /\ smart /\ local = remote
    /\ Decides("SYNC_COMPLETE") /\ UNCHANGED Record
UploadsLocal ==
    /\ result = "OK" /\ smart /\ local > remote
    /\ Decides("UPLOADING")
    /\ document' = "primary" /\ UNCHANGED <<result, remote>>

\* saveProgressAndReturn(): the write may fail.
Apply(ok) ==
    /\ saved' = IF ok THEN remote ELSE saved
    /\ sync' = IF ok THEN "returning" ELSE "SYNC_FAILED"
    /\ UNCHANGED <<local, smart, Record, server, wifiActivated, History>>

Behind == local < remote

AppliesRemote(ok) ==
    /\ sync = "deciding" /\ result = "OK" /\ smart /\ Behind
    /\ Apply(ok)

AsksReader ==
    /\ result = "OK" /\ ~smart
    /\ Decides("SHOWING_RESULT") /\ UNCHANGED Record

-----------------------------------------------------------------------------
(* The reader's choice and the upload. *)

\* startUpload() computes the identifier that performSync() already has.
ChooseUpload ==
    /\ sync \in {"SHOWING_RESULT", "NO_REMOTE_PROGRESS"} /\ sync' = "UPLOADING"
    /\ UNCHANGED <<Record, History>> /\ Quiet
ChooseApply(ok) == sync = "SHOWING_RESULT" /\ Apply(ok)

\* updateProgress(): refused, stored, or stored without the answer arriving.
Upload(stored, arrives) ==
    /\ SyncGoes("UPLOADING", IF stored /\ arrives THEN "UPLOAD_COMPLETE"
                             ELSE "SYNC_FAILED")
    /\ server' = IF stored THEN [server EXCEPT ![document] = local] ELSE server
    /\ UNCHANGED <<Device, Record, wifiActivated, History>>

\* Back, Confirm, or the timer of the screens that report success.
ReturnToReader ==
    /\ sync \in {"SYNC_FAILED", "UPLOAD_COMPLETE", "SYNC_COMPLETE",
                 "SHOWING_RESULT", "NO_REMOTE_PROGRESS"}
    /\ sync' = "returning" /\ UNCHANGED <<Record, History>> /\ Quiet

\* onExit() restarts the device, which opens the book where it was saved.
Reopened ==
    /\ sync = "returning" /\ sync' = "closed"
    /\ local' = saved /\ wifiActivated' = FALSE
    /\ document' = "none" /\ result' = "error" /\ remote' = 0
    /\ answer' = Unheard /\ disturbed' = FALSE
    /\ smart' = FALSE /\ server' = NoRecords
    /\ UNCHANGED saved

-----------------------------------------------------------------------------
(* Other devices. *)

OtherDevice(id, p) ==
    /\ sync \in {"probing", "deciding", "SHOWING_RESULT", "UPLOADING"}
    /\ server' = [server EXCEPT ![id] = p]
    /\ disturbed' = (disturbed \/ (answer # Unheard /\ id = "primary"))
    /\ UNCHANGED <<Device, sync, Record, wifiActivated, answer>>

SyncInit ==
    /\ local = 0 /\ saved = 0 /\ smart = FALSE
    /\ sync = "closed" /\ document = "none" /\ result = "error" /\ remote = 0
    /\ server = NoRecords /\ wifiActivated = FALSE
    /\ answer = Unheard /\ disturbed = FALSE

SyncStep ==
    \/ \E ok \in BOOLEAN :
          \/ Fetch(ok) \/ Probe(ok) \/ AppliesRemote(ok) \/ ChooseApply(ok)
    \/ NothingStored \/ SyncFails \/ Agrees \/ UploadsLocal \/ AsksReader
    \/ ChooseUpload \/ ReturnToReader
    \/ \E stored, arrives \in BOOLEAN : Upload(stored, arrives)

Elsewhere ==
    \/ \E p \in Positions : TurnTo(p)
    \/ \E id \in Ids, p \in Positions : OtherDevice(id, p)

-----------------------------------------------------------------------------
(* Properties. *)

SyncStates == {"closed", "entering", "connecting", "fetching", "probing",
    "deciding", "SHOWING_RESULT", "UPLOADING", "UPLOAD_COMPLETE",
    "SYNC_COMPLETE", "NO_REMOTE_PROGRESS", "SYNC_FAILED", "returning"}

SyncTypeOK ==
    /\ local \in Positions /\ saved \in Positions
    /\ smart \in BOOLEAN /\ sync \in SyncStates
    /\ document \in Ids \cup {"none"}
    /\ result \in {"OK", "NOT_FOUND", "error"} /\ remote \in Positions
    /\ server \in [Ids -> Positions \cup {Nothing}]
    /\ wifiActivated \in BOOLEAN
    /\ answer \in Positions \cup {Nothing, Unheard} /\ disturbed \in BOOLEAN

\* Smart sync never takes the server's record back to an earlier position when
\* the record was received and nobody wrote it since: whatever the alternate
\* identifier answered, the upload is ahead of both (175-264).
SmartNeverRegresses ==
    [][sync = "UPLOADING" /\ sync' # sync /\ smart /\ answer # Unheard
           /\ ~disturbed => server'["primary"] >= server["primary"]]_syncVars

\* Whichever way a sync ends, by a choice, a failure, Back or the restart, the
\* book opens at the position the reader left or at the one it accepted.
NoPositionIsLost ==
    sync # "closed" => saved \in {local, remote}
=============================================================================
